---- MODULE Spec2Model ----
(***************************************************************************)
(* Asynchronous job subsystem of the video generator backend:              *)
(*   - the enqueue routes (POST /ai/generate-content, /ai/regenerate/:id,  *)
(*     /videos/generate, DELETE /ai/jobs/clear),                           *)
(*   - publishToQueue and the RabbitMQ queues,                             *)
(*   - the two consumers (createAIContentWorker, startVideoWorker) with    *)
(*     their handlers (processAIContentJob, processVideoGenerationJob),    *)
(*   - the Job, Product and Video collections they write,                  *)
(*   - the connection manager of the server (initializeRabbitMQ, its       *)
(*     'close' handler and reconnect timer, getChannel),                   *)
(*   - generateVideo with its unawaited progress writes, and prepareScenes,*)
(*   - the file steps of generateVideo (processScenes, the narration,      *)
(*     createVideoFromScenes with its Music lookup, generateThumbnail, the *)
(*     upload) in CompSpec,                                                *)
(*   - the status queries (getQueueStats, getAIContentStats,               *)
(*     getVideoJobStats, GET /ai/queue/stats) in StatsSpec.                *)
(* Every awaited database write is one atomic step; a read, and the code   *)
(* that runs synchronously between two awaits, belongs to the step of the  *)
(* write that follows.  A write nobody awaits (updateProgress) is applied  *)
(* in a step of its own, in any order.  In the runs with consumers the     *)
(* channel stays open: the branches the consumers take when                *)
(* channel.sendToQueue throws are not reached.  The connection is lost and *)
(* re-established in ConnSpec, which is the server process alone.          *)
(* Progress is counted in tenths of a percent and time in tenths of a      *)
(* second.                                                                 *)
(*                                                                         *)
(* A product has two identifiers, as in the code: _id (an ObjectId) and    *)
(* productId (the string of the upload).  The routes take an _id and write *)
(* it into Job.productId; the messages carry the productId string.         *)
(***************************************************************************)
EXTENDS Integers, Sequences, FiniteSets, TLC

\* ------------------------------------------------------------------ bounds
NumProducts == 2     \* documents in the Product collection
MaxRequests == 1     \* enqueue requests issued in a run of Spec
MaxEnqueues == 2     \* enqueue requests issued in a run of EnqueueSpec
MaxExternal == 1     \* messages put on a queue by a foreign publisher
MaxCrashes  == 1     \* worker process crashes
MaxClears   == 1     \* DELETE /ai/jobs/clear requests
MaxPendingWrites == 2 \* updateProgress writes issued and not yet applied
MaxOutages  == 2     \* times the broker goes away in a run of ConnSpec
MaxScraped  == 3     \* length of product.images given to prepareScenes
MaxFallback == 2     \* length of product.fallbackImages.images
MaxKeyPoints == 3    \* length of product.aiContent.keyPoints
MaxCustomText == 2   \* length of config.customText, when given
DisplayTimes == {5, 30, 35, 50, 100, 120}  \* displayTime values, tenths of a second
MaxSceneCount == 3   \* scenes of a generateVideo run in CompSpec
MaxReports  == 2     \* 'progress' events of an encoder run
MaxQueries  == 2     \* status queries of a run
FfmpegPercents == {0, 25, 100}  \* progress.percent of an ffmpeg 'progress' event

\* ------------------------------------------------------- program constants
maxRetries    == 3   \* const maxRetries = 3 in both consumers
AIPrefetch    == 3   \* config.queue.concurrency, QUEUE_CONCURRENCY default
VideoPrefetch == 1   \* channel.prefetch(1)

QAI    == "vid-processor-mq"
QVIDEO == "vid-processor-mq-video"
QUEUE_NAMES == {QAI, QVIDEO}
QSCRAPER == "vid-processor-mq-scraper"
\* Object.values(QUEUE_NAMES): every queue initializeRabbitMQ asserts.
DurableQueues == QUEUE_NAMES \cup {QSCRAPER}

Products == 1..NumProducts
JobIds   == 1..MaxEnqueues

\* Strings that serve as identifiers are modelled by what Mongoose can do with
\* them: hex says whether the text is the 24 hex digits of an ObjectId, and of
\* names the document whose id it is.
ShopId(p) == [hex |-> FALSE, of |-> p]          \* the id a shop gave product p
ObjectIdString(id) == [hex |-> TRUE, of |-> id] \* _id.toString()
NoString == [hex |-> FALSE, of |-> 0]

\* Casting a filter value to the ObjectId type of Job.productId.
IsObjectIdString(s) == s.hex
CastObjectId(s) == s.of
CastError == "Cast to ObjectId failed"

\* The productId an upload can give the p-th product: a shop id of its own, or
\* the text of the _id of a product uploaded before it (productId is unique).
ProductIdStrings(p) ==
  {ShopId(p)} \cup {ObjectIdString(q) : q \in {q \in Products : q < p}}

NoHeader    == -1            \* no x-retry-count header on the message
NoVideo     == 0             \* messageData.videoId is undefined
NoError     == "(unset)"     \* the error field of a record is not set
InvalidByte == "\\xff"       \* a byte that is not valid UTF-8
Replacement == "\\ufffd"     \* what Buffer.toString() decodes it to

JobType(q) == IF q = QAI THEN "ai_content" ELSE "generate_video"
\* One prefetch count for every consumer.
PrefetchShared(q) == AIPrefetch
\* channel.prefetch(n) of the consumer of queue q
Prefetch(q) == IF q = QAI THEN AIPrefetch ELSE VideoPrefetch

\* Messages of the errors the external services raise (text service,
\* encoder); an Error may carry an empty message.
ServiceErrors == {"service failed", ""}

VARIABLES
  products,          \* Product collection, by _id
  jobs,              \* Job collection, in insertion order (_id = index)
  videos,            \* Video collection, in insertion order (_id = index)
  queue,             \* ready messages of each durable queue, head first
  inflight,          \* deliveries not yet settled, with their handler's position
  reqs,              \* HTTP requests between two awaits
  queuesInitialized, \* jobs/queue.ts
  rabbitmqAvailable, \* config/rabbitmq.ts
  connection,        \* config/rabbitmq.ts
  channel,           \* config/rabbitmq.ts, with the queues asserted on it
  initPc,            \* position of the running initializeRabbitMQ()
  reconnectTimer,    \* the setTimeout of the 'close' handler is pending
  brokerUp,          \* the broker accepts connections
  progressWrites,    \* updateProgress() calls issued and not yet applied
  files,             \* kinds of output file the composition pipeline has written
  sceneIn, scenes,   \* arguments and result of prepareScenes
  compIn, comp,      \* config and state of a generateVideo run, file by file
  stats,             \* the answer of the last status query
  nReq, nExt, nCrash, nClear, nOutage,
  execs,             \* history: handler executions started per jobId
  lastSettle,        \* history: the latest ack / nack a consumer sent
  lastReq,           \* history: the enqueue request started last
  lastRes,           \* history: the latest response to an enqueue request
  everAvailable      \* history: the connection manager was available once

dbVars     == <<products, jobs, videos>>
brokerVars == <<queue, inflight>>
connVars   == <<queuesInitialized, rabbitmqAvailable, connection, channel, initPc,
                reconnectTimer, brokerUp, nOutage, everAvailable>>
sceneVars  == <<sceneIn, scenes, compIn, comp, stats>>
envVars    == <<connVars, sceneVars, lastRes>>
mediaVars  == <<progressWrites, files>>
countVars  == <<nReq, nExt, nCrash, nClear>>
histVars   == <<execs, lastSettle, lastReq>>
vars == <<dbVars, brokerVars, reqs, envVars, mediaVars, countVars, histVars>>

\* ------------------------------------------------------------ JSON, Buffer
\* JSON.stringify({...data, jobId, timestamp}): the text of one object.
\* (videoId is undefined in the data the routes pass, so it is left out of the
\* text; NoVideo stands for the missing key.)
JSONStringify(data) ==
  [open |-> "{", productId |-> data.productId, videoId |-> data.videoId,
   jobId |-> data.jobId, close |-> "}"]

\* msg.content.toString(): invalid UTF-8 decodes to U+FFFD.
BufferToString(content) ==
  [content EXCEPT
     !.open  = IF @ = InvalidByte THEN Replacement ELSE @,
     !.close = IF @ = InvalidByte THEN Replacement ELSE @]

\* Buffer.from(string): the UTF-8 encoding of the text.
BufferFrom(text) == text

\* The text `null`, which JSON.parse accepts and turns into null.
NullText == [open |-> "null", productId |-> NoString, videoId |-> NoVideo,
             jobId |-> 0, close |-> ""]

\* JSON.parse throws unless the text is a complete object or the literal
\* null.
JSONParses(text) ==
  \/ text.open = "{" /\ text.close = "}"
  \/ text.open = "null" /\ text.close = ""

\* JSON.parse(text) === null
ParsesToNull(text) == text.open = "null" /\ text.close = ""

JSONParse(text) ==
  [productId |-> text.productId, videoId |-> text.videoId, jobId |-> text.jobId]

\* Bodies a foreign publisher may put on a queue: raw bytes, a truncated
\* object, the JSON text null.
ExternalBodies ==
  { [open |-> InvalidByte, productId |-> NoString, videoId |-> NoVideo,
     jobId |-> 0, close |-> InvalidByte],
    [open |-> "{", productId |-> ShopId(1), videoId |-> NoVideo,
     jobId |-> 0, close |-> ""],
    NullText }

\* msg.properties.headers?.['x-retry-count'] || 0
RetryCount(msg) == IF msg.xRetryCount = NoHeader THEN 0 ELSE msg.xRetryCount

\* ---------------------------------------------------------- Job collection
\* Job.progress is a Number: the encoder callback writes 50 + progress * 0.4,
\* which is no integer.  The model counts progress in tenths of a percent.
Percent(n) == 10 * n

NewJob(p, type, jobId) ==
  [productId |-> p, type |-> type, jobId |-> jobId, status |-> "waiting",
   attempts |-> 0, maxAttempts |-> 3, progress |-> 0, error |-> NoError,
   result |-> FALSE, startedAt |-> FALSE, completedAt |-> FALSE]

Min(S) == CHOOSE x \in S : \A y \in S : x <= y

\* findOne / findOneAndUpdate act on the first match in natural (insertion)
\* order; 0 when nothing matches.
First(matches) == IF matches = {} THEN 0 ELSE Min(matches)

\* Product.findOne({productId: s}): the _id of the match, 0 for null.
FindProduct(s) ==
  First({p \in Products : products[p].exists /\ products[p].productId = s})

\* The Job documents of one (productId, type).
JobsOf(p, type) ==
  {i \in DOMAIN jobs : jobs[i].productId = p /\ jobs[i].type = type}

NonTerminal(j) == j.status \in {"waiting", "active"}

\* {productId, type, status: {$in: ['waiting', 'active']}}
PendingJobs(p, type) == {i \in JobsOf(p, type) : NonTerminal(jobs[i])}

\* {productId, type, status: {$ne: 'completed'}}
NotCompletedJobs(p, type) == {i \in JobsOf(p, type) : jobs[i].status # "completed"}

\* {productId, type, status: 'active'}
ActiveJobs(p, type) == {i \in JobsOf(p, type) : jobs[i].status = "active"}

\* findOneAndUpdate(filter, {$set: {status: 'active', startedAt: new Date()},
\*                           $inc: {attempts: 1}}) on the first of the matches
ActivateFirst(matches) ==
  IF matches = {} THEN jobs
  ELSE [jobs EXCEPT ![First(matches)].status = "active",
                    ![First(matches)].startedAt = TRUE,
                    ![First(matches)].attempts = @ + 1]

\* findOneAndUpdate(filter, {$set: {progress}})
ProgressFirst(matches, progress) ==
  IF matches = {} THEN jobs
  ELSE [jobs EXCEPT ![First(matches)].progress = progress]

\* findOneAndUpdate(filter, {$set: {status: 'completed', progress: 100,
\*                                  completedAt: new Date(), result}})
CompleteFirst(matches) ==
  IF matches = {} THEN jobs
  ELSE [jobs EXCEPT ![First(matches)].status = "completed",
                    ![First(matches)].progress = Percent(100),
                    ![First(matches)].completedAt = TRUE,
                    ![First(matches)].result = TRUE]

\* findOneAndUpdate(filter, {$set: {status: 'failed', error,
\*                                  completedAt: new Date()}})
FailFirst(matches, error) ==
  IF matches = {} THEN jobs
  ELSE [jobs EXCEPT ![First(matches)].status = "failed",
                    ![First(matches)].error = error,
                    ![First(matches)].completedAt = TRUE]

\* ------------------------------------------------------------------- Init
NoMessage == [content |-> JSONStringify([productId |-> NoString, videoId |-> NoVideo, jobId |-> 0]),
              xRetryCount |-> NoHeader, persistent |-> FALSE, priority |-> 0]
NoSettle == [op |-> "none", requeue |-> FALSE, msg |-> NoMessage]
NoRequest == [p |-> 0, type |-> "none", existingJobId |-> 0]
NoResponse == [id |-> 0, route |-> "none", p |-> 0, success |-> FALSE,
               mode |-> "none", error |-> NoError, dbJobId |-> 0]
NoSceneInput == [images |-> <<>>, fallbackImages |-> <<>>, keyPoints |-> <<>>,
                 hasCustomText |-> FALSE, customText |-> <<>>, displayTime |-> 0,
                 music |-> FALSE, narration |-> FALSE]
NoScenes == [called |-> FALSE, error |-> NoError, list |-> <<>>]
NullChannel == [state |-> "null", asserted |-> {}, consumers |-> {}]
NoCompError == [kind |-> "none", index |-> -1]
NoCompInput == [nScenes |-> 0, musicId |-> FALSE, musicExists |-> FALSE,
                narration |-> FALSE, ttsAvailable |-> FALSE, driveEnabled |-> FALSE]
\* No status query was made.
NoCounts == [waiting |-> 0, active |-> 0, completed |-> 0, failed |-> 0]
NoStats == [n |-> 0, call |-> "none", success |-> FALSE, mode |-> "none",
            counts |-> NoCounts, hasTotal |-> FALSE, total |-> 0,
            hasAvailable |-> FALSE, available |-> FALSE]
\* generateVideo is not running.
NoComp ==
  [pc |-> "idle", i |-> 0, temp |-> {}, narrationAudioPath |-> FALSE,
   lookup |-> "none", audio |-> {}, mixed |-> FALSE,
   started |-> FALSE, startedAudio |-> {}, startedMixed |-> FALSE,
   reported |-> <<>>, out |-> {}, uploaded |-> FALSE, error |-> NoCompError]

\* The uploaded products.  images and fallbackImages are the lengths of
\* product.images and product.fallbackImages.images.
ProductsInit(imageCounts, fallbackCounts) ==
  /\ products \in [Products -> [exists : {TRUE},
                                 productId : UNION {ProductIdStrings(p) : p \in Products},
                                 status : {"pending", "ready"},
                                 aiContent : BOOLEAN,
                                 images : imageCounts,
                                 fallbackImages : fallbackCounts]]
  /\ \A p \in Products :
       /\ products[p].productId \in ProductIdStrings(p)
       /\ products[p].aiContent <=> products[p].status = "ready"

\* initializeRabbitMQ() and initializeQueues() have succeeded.
ConnectedInit ==
  /\ connection = "open"
  /\ channel = [state |-> "open", asserted |-> DurableQueues, consumers |-> {}]
  /\ rabbitmqAvailable = TRUE
  /\ queuesInitialized = TRUE
  /\ brokerUp = TRUE
  /\ everAvailable = TRUE

\* Nothing requested, published or handled yet.
QuietInit ==
  /\ jobs = <<>>
  /\ videos = <<>>
  /\ queue = [q \in QUEUE_NAMES |-> <<>>]
  /\ inflight = {}
  /\ reqs = {}
  /\ initPc = "idle"
  /\ reconnectTimer = FALSE
  /\ progressWrites = {}
  /\ files = {}
  /\ nReq = 0 /\ nExt = 0 /\ nCrash = 0 /\ nClear = 0 /\ nOutage = 0
  /\ execs = [i \in JobIds |-> 0]
  /\ lastSettle = NoSettle
  /\ lastReq = NoRequest
  /\ lastRes = NoResponse

\* ... and prepareScenes has not been called.
IdleInit ==
  /\ QuietInit
  /\ sceneIn = NoSceneInput /\ scenes = NoScenes
  /\ compIn = NoCompInput /\ comp = NoComp /\ stats = NoStats

Init == ProductsInit({1}, {0}) /\ ConnectedInit /\ IdleInit

\* --------------------------------------------------------------- producer
\* getChannel() that hands out the channel without looking at rabbitmqAvailable.
getChannelUnguarded == channel.state # "null"

\* getChannel(): the channel, or null when the broker is not available.
getChannel == rabbitmqAvailable /\ channel.state # "null"

\* channel.sendToQueue() on a closed channel throws; publishToQueue catches
\* and returns false.
sendToQueueThrows == channel.state # "open"

\* The message channel.sendToQueue() is given by publishToQueue.
NewMessage(data, priority) ==
  [content |-> BufferFrom(JSONStringify(data)),
   xRetryCount |-> NoHeader,
   persistent |-> TRUE,
   priority |-> IF priority = 0 THEN 5 ELSE priority]

\* publishToQueue as called by addAIContentJob / addVideoJob: the queue
\* contents after the call.  Nothing is sent when the queues were never
\* initialized or there is no channel.
publishToQueue(q, data, priority) ==
  IF queuesInitialized /\ getChannel /\ ~sendToQueueThrows
    THEN [queue EXCEPT ![q] = Append(@, NewMessage(data, priority))]
    ELSE queue

\* What addAIContentJob / addVideoJob return: a jobId (TRUE) or null (FALSE).
\* sent is the return value of channel.sendToQueue (false: write buffer full,
\* the message is buffered and goes out all the same).
AddJobResult(sent) == queuesInitialized /\ getChannel /\ ~sendToQueueThrows /\ sent

\* The part of a route's response the callers look at.
Response(id, route, p, success, mode, error, dbJobId) ==
  [id |-> id, route |-> route, p |-> p, success |-> success, mode |-> mode,
   error |-> error, dbJobId |-> dbJobId]
QueueFailedError == "Failed to queue job to RabbitMQ"
NullJobError == "null is not an object (evaluating 'bullJob.id')"
VideoQueueFailedError == "Failed to queue video generation job: RabbitMQ is not available"
NoImageRouteError == "Product must have at least one image to generate video"
ExistingJobError == "job already queued"

\* POST /ai/generate-content, queue mode, one productId of the request:
\* Product.findById, then the existingJob check.  A run admits limit requests
\* over all routes.
GenerateContentCheck(p, limit) ==
  /\ nReq < limit
  /\ queuesInitialized
  /\ products[p].exists
  /\ nReq' = nReq + 1
  /\ LET existingJob == First(PendingJobs(p, "ai_content"))
     IN /\ lastReq' = [p |-> p, type |-> "ai_content", existingJobId |-> existingJob]
        /\ IF existingJob # 0
             THEN /\ reqs' = reqs
                  /\ lastRes' = Response(nReq + 1, "generate", p, FALSE, "queue",
                                         ExistingJobError, 0)
             ELSE /\ reqs' = reqs \cup {[id |-> nReq + 1, route |-> "generate",
                                         p |-> p, pc |-> "create", dbJobId |-> 0]}
                  /\ lastRes' = lastRes
  /\ UNCHANGED <<dbVars, brokerVars, connVars, sceneVars, mediaVars, nExt, nCrash,
                 nClear, execs, lastSettle>>

\* Job.create({type: 'ai_content', productId: product._id, status: 'waiting'})
GenerateContentCreate(r) ==
  /\ r \in reqs /\ r.route = "generate" /\ r.pc = "create"
  /\ jobs' = Append(jobs, NewJob(r.p, "ai_content", 0))
  /\ reqs' = (reqs \ {r}) \cup {[r EXCEPT !.pc = "publish", !.dbJobId = Len(jobs) + 1]}
  /\ UNCHANGED <<products, videos, brokerVars, envVars, mediaVars, countVars, histVars>>

\* addAIContentJob(...) and what the route makes of its result: the entry of
\* the response with jobId and dbJobId, or failedError.  Either way this
\* productId of the request is finished.
AIPublish(r, priority, failedError) ==
  /\ queue' = publishToQueue(QAI, [productId |-> products[r.p].productId, videoId |-> NoVideo,
                                   jobId |-> r.id], priority)
  /\ reqs' = reqs \ {r}
  /\ \E sent \in BOOLEAN :
       lastRes' = IF AddJobResult(sent)
                    THEN Response(r.id, r.route, r.p, TRUE, "queue", NoError, r.dbJobId)
                    ELSE Response(r.id, r.route, r.p, FALSE, "queue", failedError, 0)
  /\ UNCHANGED <<dbVars, inflight, connVars, sceneVars, mediaVars, countVars, histVars>>

\* if (!jobId) throw new Error('Failed to queue job to RabbitMQ')
GenerateContentPublish(r) ==
  /\ r \in reqs /\ r.route = "generate" /\ r.pc = "publish"
  /\ AIPublish(r, 5, QueueFailedError)

\* POST /ai/generate-content without queues: Product.findById,
\* aiService.generateContent, product.save() with the content (the status is
\* not written); a failure goes to the errors of the response.
GenerateContentSync(p, limit) ==
  /\ nReq < limit
  /\ ~queuesInitialized
  /\ products[p].exists
  /\ nReq' = nReq + 1
  /\ lastReq' = [p |-> p, type |-> "ai_content", existingJobId |-> 0]
  /\ \/ /\ products' = [products EXCEPT ![p].aiContent = TRUE]
        /\ reqs' = reqs \cup {[id |-> nReq + 1, route |-> "generate",
                               p |-> p, pc |-> "cleanup", dbJobId |-> 0]}
        /\ lastRes' = lastRes
     \/ /\ products' = products
        /\ reqs' = reqs
        /\ \E e \in ServiceErrors :
             lastRes' = Response(nReq + 1, "generate", p, FALSE, "synchronous", e, 0)
  /\ UNCHANGED <<jobs, videos, brokerVars, connVars, sceneVars, mediaVars, nExt, nCrash,
                 nClear, execs, lastSettle>>

\* Job.updateMany({productId: {$in: processed}, type: 'ai_content',
\*                 status: {$in: ['waiting', 'active']}}, completed); return
GenerateContentSyncCleanup(r) ==
  /\ r \in reqs /\ r.route = "generate" /\ r.pc = "cleanup"
  /\ jobs' = [i \in DOMAIN jobs |->
                IF i \in PendingJobs(r.p, "ai_content")
                  THEN [jobs[i] EXCEPT !.status = "completed", !.completedAt = TRUE]
                  ELSE jobs[i]]
  /\ reqs' = reqs \ {r}
  /\ lastRes' = Response(r.id, r.route, r.p, TRUE, "synchronous", NoError, 0)
  /\ UNCHANGED <<products, videos, brokerVars, connVars, sceneVars, mediaVars,
                 countVars, histVars>>

\* POST /ai/regenerate/:productId, queue mode: Product.findById, Job.create.
RegenerateCreate(p, limit) ==
  /\ nReq < limit
  /\ queuesInitialized
  /\ products[p].exists
  /\ nReq' = nReq + 1
  /\ lastReq' = [p |-> p, type |-> "ai_content", existingJobId |-> 0]
  /\ jobs' = Append(jobs, NewJob(p, "ai_content", 0))
  /\ reqs' = reqs \cup {[id |-> nReq + 1, route |-> "regenerate",
                         p |-> p, pc |-> "publish", dbJobId |-> Len(jobs) + 1]}
  /\ UNCHANGED <<products, videos, brokerVars, envVars, mediaVars, nExt, nCrash, nClear,
                 execs, lastSettle>>

\* bullJob = addAIContentJob(..., 8); return {jobId: bullJob.id, dbJobId}:
\* reading .id of null throws, and the catch answers with the error.
RegeneratePublish(r) ==
  /\ r \in reqs /\ r.route = "regenerate" /\ r.pc = "publish"
  /\ AIPublish(r, 8, NullJobError)

\* POST /ai/regenerate/:productId without queues: generateContent and
\* product.save() inline.
RegenerateSync(p, limit) ==
  /\ nReq < limit
  /\ ~queuesInitialized
  /\ products[p].exists
  /\ nReq' = nReq + 1
  /\ lastReq' = [p |-> p, type |-> "ai_content", existingJobId |-> 0]
  /\ \/ /\ products' = [products EXCEPT ![p].aiContent = TRUE]
        /\ lastRes' = Response(nReq + 1, "regenerate", p, TRUE, "synchronous", NoError, 0)
     \/ /\ products' = products
        /\ \E e \in ServiceErrors :
             lastRes' = Response(nReq + 1, "regenerate", p, FALSE, "synchronous", e, 0)
  /\ UNCHANGED <<jobs, videos, brokerVars, reqs, connVars, sceneVars, mediaVars, nExt,
                 nCrash, nClear, execs, lastSettle>>

\* POST /videos/generate: Product.findById, the aiContent and images checks,
\* addVideoJob; the Job record is written after the publish.  The route has no
\* branch on queuesInitialized.
VideoGeneratePublish(p, limit) ==
  /\ nReq < limit
  /\ products[p].exists
  /\ products[p].aiContent
  /\ nReq' = nReq + 1
  /\ lastReq' = [p |-> p, type |-> "generate_video", existingJobId |-> 0]
  /\ IF products[p].images = 0
       THEN /\ UNCHANGED <<queue, reqs>>
            /\ lastRes' = Response(nReq + 1, "video", p, FALSE, "queue",
                                   NoImageRouteError, 0)
       ELSE /\ queue' = publishToQueue(QVIDEO, [productId |-> products[p].productId,
                                                videoId |-> NoVideo,
                                                jobId |-> nReq + 1], 5)
            /\ \E sent \in BOOLEAN :
                 IF AddJobResult(sent)
                   THEN /\ reqs' = reqs \cup {[id |-> nReq + 1, route |-> "video",
                                               p |-> p, pc |-> "create", dbJobId |-> 0]}
                        /\ lastRes' = lastRes
                   ELSE /\ reqs' = reqs
                        /\ lastRes' = Response(nReq + 1, "video", p, FALSE, "queue",
                                               VideoQueueFailedError, 0)
  /\ UNCHANGED <<dbVars, inflight, connVars, sceneVars, mediaVars, nExt, nCrash,
                 nClear, execs, lastSettle>>

\* new Job({jobId, productId: product._id, type: 'generate_video', ...}).save()
VideoGenerateCreate(r) ==
  /\ r \in reqs /\ r.route = "video" /\ r.pc = "create"
  /\ jobs' = Append(jobs, NewJob(r.p, "generate_video", r.id))
  /\ reqs' = reqs \ {r}
  /\ lastRes' = Response(r.id, r.route, r.p, TRUE, "queue", NoError, Len(jobs) + 1)
  /\ UNCHANGED <<products, videos, brokerVars, connVars, sceneVars, mediaVars,
                 countVars, histVars>>

\* DELETE /ai/jobs/clear, for all products or for the given one (p = 0: all):
\* Job.updateMany({type: 'ai_content', status: {$in: ['waiting', 'active']}},
\*                {status: 'failed', error: 'Cancelled by user', completedAt})
ClearJobs(p) ==
  /\ nClear < MaxClears
  /\ nClear' = nClear + 1
  /\ jobs' = [i \in DOMAIN jobs |->
                IF /\ jobs[i].type = "ai_content"
                   /\ NonTerminal(jobs[i])
                   /\ (p = 0 \/ jobs[i].productId = p)
                  THEN [jobs[i] EXCEPT !.status = "failed",
                                       !.error = "Cancelled by user",
                                       !.completedAt = TRUE]
                  ELSE jobs[i]]
  /\ UNCHANGED <<products, videos, brokerVars, reqs, envVars, mediaVars, nReq, nExt, nCrash,
                 histVars>>

\* A foreign publisher puts a body that is not JSON on a queue.
ExternalPublish(q, body) ==
  /\ nExt < MaxExternal
  /\ nExt' = nExt + 1
  /\ queue' = [queue EXCEPT ![q] = Append(@,
                 [content |-> IF body = NullText THEN body
                                                 ELSE [body EXCEPT !.jobId = nExt + 1],
                  xRetryCount |-> NoHeader, persistent |-> TRUE, priority |-> 5])]
  /\ UNCHANGED <<dbVars, inflight, reqs, envVars, mediaVars, nReq, nCrash, nClear, histVars>>

\* --------------------------------------------------------------- consumers
Delivery(q, msg, data) ==
  [q |-> q, msg |-> msg, data |-> data, pc |-> "start", err |-> NoError,
   product |-> 0, vid |-> 0]

InFlightOn(q) == {d \in inflight : d.q = q}

\* inflight with the handler of delivery d moved on to pc / having thrown.
Goto(d, pc) == (inflight \ {d}) \cup {[d EXCEPT !.pc = pc]}
Throw(d, err, pc) == (inflight \ {d}) \cup {[d EXCEPT !.pc = pc, !.err = err]}

HandlerFrame == <<queue, reqs, envVars, mediaVars, countVars, histVars>>

\* channel.ack(msg): the broker forgets the delivery.
ChannelAck(d) ==
  /\ inflight' = inflight \ {d}
  /\ lastSettle' = [op |-> "ack", requeue |-> FALSE, msg |-> d.msg]

\* channel.nack(msg, false, requeue) of a message the broker holds unsettled
\* beside the pending messages of its queue: the broker drops the message, or
\* puts it back at the head of the queue.
ChannelNack(q, msg, requeue, pending) ==
  /\ lastSettle' = [op |-> "nack", requeue |-> requeue, msg |-> msg]
  /\ queue' = [queue EXCEPT ![q] = IF requeue THEN <<msg>> \o pending ELSE pending]

\* A consumer that gives the unparseable message back to the queue.
DeliverMalformedRequeue(q) ==
  /\ queue[q] # <<>>
  /\ Cardinality(InFlightOn(q)) < Prefetch(q)
  /\ ~JSONParses(BufferToString(Head(queue[q]).content))
  /\ ChannelNack(q, Head(queue[q]), TRUE, Tail(queue[q]))
  /\ UNCHANGED <<dbVars, inflight, reqs, envVars, mediaVars, countVars, execs, lastReq>>

\* The consume callback for a body JSON.parse rejects:
\* channel.nack(msg, false, false); return
DeliverMalformed(q) ==
  /\ queue[q] # <<>>
  /\ Cardinality(InFlightOn(q)) < Prefetch(q)
  /\ ~JSONParses(BufferToString(Head(queue[q]).content))
  /\ ChannelNack(q, Head(queue[q]), FALSE, Tail(queue[q]))
  /\ UNCHANGED <<dbVars, inflight, reqs, envVars, mediaVars, countVars, execs, lastReq>>

\* The consume callback for the body null: messageData is null, so reading
\* messageData.jobId in the try throws a TypeError, and the first statement
\* of the catch that reads messageData.jobId throws again, before the retry
\* decision.  The callback ends without ack or nack; the broker keeps the
\* delivery unsettled.
DeliverNull(q) ==
  /\ queue[q] # <<>>
  /\ Cardinality(InFlightOn(q)) < Prefetch(q)
  /\ ParsesToNull(BufferToString(Head(queue[q]).content))
  /\ queue' = [queue EXCEPT ![q] = Tail(@)]
  /\ inflight' = inflight \cup
       {[Delivery(q, Head(queue[q]), JSONParse(BufferToString(Head(queue[q]).content)))
           EXCEPT !.pc = "thrown", !.err = "TypeError"]}
  /\ UNCHANGED <<dbVars, reqs, envVars, mediaVars, countVars, histVars>>

\* The consume callback for a body that parses, up to the handler's first await.
DeliverJob(q) ==
  /\ queue[q] # <<>>
  /\ Cardinality(InFlightOn(q)) < Prefetch(q)
  /\ JSONParses(BufferToString(Head(queue[q]).content))
  /\ ~ParsesToNull(BufferToString(Head(queue[q]).content))
  /\ LET msg  == Head(queue[q])
         data == JSONParse(BufferToString(msg.content))
     IN /\ queue' = [queue EXCEPT ![q] = Tail(@)]
        /\ inflight' = inflight \cup {Delivery(q, msg, data)}
        /\ execs' = [execs EXCEPT ![data.jobId] = @ + 1]
  /\ UNCHANGED <<dbVars, reqs, envVars, mediaVars, countVars, lastSettle, lastReq>>

\* ---- processAIContentJob
\* The Job filters of the AI consumer pass the productId of the message, a
\* string, for the ObjectId field Job.productId: Mongoose casts it, or the
\* query rejects with a CastError.

\* Job.findOneAndUpdate({productId, type, status: {$ne: 'completed'}}, activate)
AIActivate(d) ==
  /\ d \in inflight /\ d.q = QAI /\ d.pc = "start"
  /\ IF IsObjectIdString(d.data.productId)
       THEN /\ jobs' = ActivateFirst(NotCompletedJobs(CastObjectId(d.data.productId),
                                                      "ai_content"))
            /\ inflight' = Goto(d, "markProcessing")
       ELSE /\ jobs' = jobs
            /\ inflight' = Throw(d, CastError, "catchProduct")
  /\ UNCHANGED <<products, videos, HandlerFrame>>

\* Product.findOneAndUpdate({productId}, {$set: {status: 'ai_processing'}});
\* product = Product.findOne({productId}), throwing 'Product not found'
AIMarkProcessing(d) ==
  /\ d \in inflight /\ d.q = QAI /\ d.pc = "markProcessing"
  /\ LET p == FindProduct(d.data.productId)
     IN IF p # 0
          THEN /\ products' = [products EXCEPT ![p].status = "ai_processing"]
               /\ inflight' = (inflight \ {d}) \cup
                                {[d EXCEPT !.pc = "progress20", !.product = p]}
          ELSE /\ products' = products
               /\ inflight' = Throw(d, "Product not found", "catchProduct")
  /\ UNCHANGED <<jobs, videos, HandlerFrame>>

\* Job.findOneAndUpdate({..., status: 'active'}, {$set: {progress: 20}});
\* aiContentService.generateContent(product, options) returns or throws
AIProgress20(d) ==
  /\ d \in inflight /\ d.q = QAI /\ d.pc = "progress20"
  /\ jobs' = ProgressFirst(ActiveJobs(CastObjectId(d.data.productId), "ai_content"), Percent(20))
  /\ \/ inflight' = Goto(d, "progress80")
     \/ \E e \in ServiceErrors : inflight' = Throw(d, e, "catchProduct")
  /\ UNCHANGED <<products, videos, HandlerFrame>>

\* Job.findOneAndUpdate({..., status: 'active'}, {$set: {progress: 80}})
AIProgress80(d) ==
  /\ d \in inflight /\ d.q = QAI /\ d.pc = "progress80"
  /\ jobs' = ProgressFirst(ActiveJobs(CastObjectId(d.data.productId), "ai_content"), Percent(80))
  /\ inflight' = Goto(d, "saveProduct")
  /\ UNCHANGED <<products, videos, HandlerFrame>>

\* product.aiContent = aiContent; product.status = 'ready'; product.save()
AISaveProduct(d) ==
  /\ d \in inflight /\ d.q = QAI /\ d.pc = "saveProduct"
  /\ products' = [products EXCEPT ![d.product].aiContent = TRUE,
                                  ![d.product].status = "ready"]
  /\ inflight' = Goto(d, "complete")
  /\ UNCHANGED <<jobs, videos, HandlerFrame>>

\* Job.findOneAndUpdate({..., status: 'active'}, completed)
AIComplete(d) ==
  /\ d \in inflight /\ d.q = QAI /\ d.pc = "complete"
  /\ jobs' = CompleteFirst(ActiveJobs(CastObjectId(d.data.productId), "ai_content"))
  /\ inflight' = Goto(d, "ack")
  /\ UNCHANGED <<products, videos, HandlerFrame>>

\* catch: Product.findOneAndUpdate({productId}, {$set: {status: 'failed'}})
AICatchProduct(d) ==
  /\ d \in inflight /\ d.q = QAI /\ d.pc = "catchProduct"
  /\ LET p == FindProduct(d.data.productId)
     IN products' = IF p # 0 THEN [products EXCEPT ![p].status = "failed"]
                             ELSE products
  /\ inflight' = Goto(d, "catchJob")
  /\ UNCHANGED <<jobs, videos, HandlerFrame>>

\* catch: try { Job.findOneAndUpdate({..., status: 'active'}, failed) }
\* catch { log }; throw error
AICatchJob(d) ==
  /\ d \in inflight /\ d.q = QAI /\ d.pc = "catchJob"
  /\ jobs' = IF IsObjectIdString(d.data.productId)
               THEN FailFirst(ActiveJobs(CastObjectId(d.data.productId), "ai_content"),
                              d.err)
               ELSE jobs
  /\ inflight' = Goto(d, "decide")
  /\ UNCHANGED <<products, videos, HandlerFrame>>

\* ---- processVideoGenerationJob
\* product = Product.findOne({productId}), throwing when it is missing or has
\* no aiContent; Job.findOneAndUpdate({productId: product._id, type,
\* status: {$ne: 'completed'}}, activate)
VActivate(d) ==
  /\ d \in inflight /\ d.q = QVIDEO /\ d.pc = "start"
  /\ LET p == FindProduct(d.data.productId)
     IN IF p = 0
          THEN /\ inflight' = Throw(d, "Product not found", "catchJob")
               /\ jobs' = jobs
        ELSE IF ~products[p].aiContent
          THEN /\ inflight' = Throw(d, "Product does not have AI content", "catchJob")
               /\ jobs' = jobs
        ELSE /\ inflight' = (inflight \ {d}) \cup
                              {[d EXCEPT !.pc = "generate", !.product = p]}
             /\ jobs' = ActivateFirst(NotCompletedJobs(p, "generate_video"))
  /\ UNCHANGED <<products, videos, HandlerFrame>>

\* What one progressCallback(progress) call of generateVideo leaves behind:
\* updateProgress is async and nobody awaits it, so its Job write is applied
\* whenever the database gets to it.  The filter is that of the handler that
\* issued it; videoId is undefined in every message of the routes, so the
\* Video part of updateProgress finds nothing.
ProgressWrite(d, progress) == [product |-> d.product, progress |-> progress]
IssueProgress(d, values) == progressWrites \cup {ProgressWrite(d, v) : v \in values}
\* A run keeps at most MaxPendingWrites of these writes pending.
CanIssue(d, values) == Cardinality(IssueProgress(d, values)) <= MaxPendingWrites

\* (progress) => progressCallback(50 + progress * 0.4), with
\* progress = progress.percent / 100 of an ffmpeg 'progress' event
EncoderPercents == {50}
EncoderProgress(percent) == Percent(50) + (4 * percent) \div 100

\* prepareScenes: images.length === 0 after product.images and
\* product.fallbackImages.images were collected
NoImages(p) == products[p].images + products[p].fallbackImages = 0
NoImagesError == "Product has no images. Cannot generate video."

\* generateVideo({productId: product._id.toString(), ...}):
\* Product.findOne({productId: config.productId}), throwing when it is missing
\* or has no aiContent; video.save() of a new Video in status 'processing';
\* progressCallback(10); prepareScenes, which throws without images;
\* progressCallback(30).
VCreateVideo(d) ==
  /\ d \in inflight /\ d.q = QVIDEO /\ d.pc = "generate"
  /\ LET p == FindProduct(ObjectIdString(d.product))
     IN IF p = 0
          THEN /\ inflight' = Throw(d, "Product not found", "catchJob")
               /\ UNCHANGED <<videos, progressWrites>>
        ELSE IF ~products[p].aiContent
          THEN /\ inflight' = Throw(d, "Product does not have AI content generated",
                                    "catchJob")
               /\ UNCHANGED <<videos, progressWrites>>
        ELSE /\ videos' = Append(videos, [productId |-> p, status |-> "processing",
                                          progress |-> 0, error |-> NoError,
                                          output |-> FALSE])
             /\ CanIssue(d, {Percent(10), Percent(30)})
             /\ IF NoImages(p)
                  THEN /\ progressWrites' = IssueProgress(d, {Percent(10)})
                       /\ inflight' = (inflight \ {d}) \cup
                            {[d EXCEPT !.pc = "catchJob", !.err = NoImagesError,
                                       !.vid = Len(videos) + 1]}
                  ELSE /\ progressWrites' = IssueProgress(d, {Percent(10), Percent(30)})
                       /\ inflight' = (inflight \ {d}) \cup
                            {[d EXCEPT !.pc = "processScenes", !.vid = Len(videos) + 1]}
  /\ UNCHANGED <<products, jobs, files, queue, reqs, envVars, countVars, histVars>>

\* new Error(`Failed to process scene ${i}: ${errorMessage}`): whatever the
\* download or sharp threw, the message processScenes throws is not empty.
ProcessScenesError == "Failed to process scene"

\* processScenes downloads and resizes the images, or throws;
\* progressCallback(50)
VProcessScenes(d) ==
  /\ d \in inflight /\ d.q = QVIDEO /\ d.pc = "processScenes"
  /\ \/ /\ CanIssue(d, {Percent(50)})
        /\ progressWrites' = IssueProgress(d, {Percent(50)})
        /\ inflight' = Goto(d, "encode")
     \/ /\ progressWrites' = progressWrites
        /\ inflight' = Throw(d, ProcessScenesError, "catchJob")
  /\ UNCHANGED <<dbVars, files, queue, reqs, envVars, countVars, histVars>>

\* createVideoFromScenes runs ffmpeg, whose 'progress' events reach
\* progressCallback(50 + progress * 0.4); it writes the video file or throws;
\* progressCallback(90)
VEncode(d) ==
  /\ d \in inflight /\ d.q = QVIDEO /\ d.pc = "encode"
  /\ \E percents \in SUBSET EncoderPercents :
       LET encoded == {EncoderProgress(x) : x \in percents}
       IN \/ /\ CanIssue(d, encoded \cup {Percent(90)})
             /\ progressWrites' = IssueProgress(d, encoded \cup {Percent(90)})
             /\ files' = files \cup {"video"}
             /\ inflight' = Goto(d, "thumbnail")
          \/ /\ CanIssue(d, encoded)
             /\ progressWrites' = IssueProgress(d, encoded)
             /\ files' = files
             /\ \E e \in ServiceErrors : inflight' = Throw(d, e, "catchJob")
  /\ UNCHANGED <<dbVars, queue, reqs, envVars, countVars, histVars>>

\* generateThumbnail writes the thumbnail or throws; progressCallback(95);
\* fs.stat and the upload to Google Drive, when enabled, return or throw
VThumbnail(d) ==
  /\ d \in inflight /\ d.q = QVIDEO /\ d.pc = "thumbnail"
  /\ \/ /\ UNCHANGED <<progressWrites, files>>
        /\ \E e \in ServiceErrors : inflight' = Throw(d, e, "catchJob")
     \/ /\ CanIssue(d, {Percent(95)})
        /\ progressWrites' = IssueProgress(d, {Percent(95)})
        /\ files' = files \cup {"thumbnail"}
        /\ \/ inflight' = Goto(d, "saveVideo")
           \/ \E e \in ServiceErrors : inflight' = Throw(d, e, "catchJob")
  /\ UNCHANGED <<dbVars, queue, reqs, envVars, countVars, histVars>>

\* video.output = ...; video.status = 'completed'; video.progress = 100; save();
\* Template.findByIdAndUpdate; progressCallback(100); return video
VSaveVideo(d) ==
  /\ d \in inflight /\ d.q = QVIDEO /\ d.pc = "saveVideo"
  /\ videos' = [videos EXCEPT ![d.vid].status = "completed",
                              ![d.vid].progress = Percent(100),
                              ![d.vid].output = TRUE]
  /\ CanIssue(d, {Percent(100)})
  /\ progressWrites' = IssueProgress(d, {Percent(100)})
  /\ inflight' = Goto(d, "complete")
  /\ UNCHANGED <<products, jobs, files, queue, reqs, envVars, countVars, histVars>>

\* The database applies one issued updateProgress write:
\* Job.findOneAndUpdate({productId: product._id, type, status: 'active'},
\*                      {$set: {progress}})
VProgressApply(w) ==
  /\ w \in progressWrites
  /\ progressWrites' = progressWrites \ {w}
  /\ jobs' = ProgressFirst(ActiveJobs(w.product, "generate_video"), w.progress)
  /\ UNCHANGED <<products, videos, files, brokerVars, reqs, envVars, countVars, histVars>>

\* Job.findOneAndUpdate({productId: product._id, type, status: 'active'}, completed)
VComplete(d) ==
  /\ d \in inflight /\ d.q = QVIDEO /\ d.pc = "complete"
  /\ jobs' = CompleteFirst(ActiveJobs(d.product, "generate_video"))
  /\ inflight' = Goto(d, "ack")
  /\ UNCHANGED <<products, videos, HandlerFrame>>

\* error.message || 'Video generation failed'
VideoErrorText(err) == IF err = "" THEN "Video generation failed" ELSE err

\* The failure write of the video consumer: Product.findOne({productId}), then
\* Job.findOneAndUpdate({productId: product._id, type}, failed), no status in
\* the filter.
VideoFailJobs(d, error) ==
  IF FindProduct(d.data.productId) # 0
    THEN FailFirst(JobsOf(FindProduct(d.data.productId), "generate_video"), error)
    ELSE jobs

\* Video.findById(videoId) / findByIdAndUpdate(videoId): status 'failed'.
\* findById(undefined) finds nothing.
VideoFailVideos(videoId, error) ==
  IF videoId \in DOMAIN videos
    THEN [videos EXCEPT ![videoId].status = "failed", ![videoId].error = error]
    ELSE videos

\* catch: the Job failure write
VCatchJob(d) ==
  /\ d \in inflight /\ d.q = QVIDEO /\ d.pc = "catchJob"
  /\ jobs' = VideoFailJobs(d, VideoErrorText(d.err))
  /\ inflight' = Goto(d, "catchVideo")
  /\ UNCHANGED <<products, videos, HandlerFrame>>

\* catch: Video.findById(videoId) -> status 'failed', save(); throw error
VCatchVideo(d) ==
  /\ d \in inflight /\ d.q = QVIDEO /\ d.pc = "catchVideo"
  /\ videos' = VideoFailVideos(d.data.videoId, VideoErrorText(d.err))
  /\ inflight' = Goto(d, "decide")
  /\ UNCHANGED <<products, jobs, HandlerFrame>>

\* ---- the consume callbacks after the handler
\* channel.ack(msg) on success
Ack(d) ==
  /\ d \in inflight /\ d.pc = "ack"
  /\ ChannelAck(d)
  /\ UNCHANGED <<dbVars, queue, reqs, envVars, mediaVars, countVars, execs, lastReq>>

\* A copy that keeps the x-retry-count of the original.
RetryMessageSameCount(msg) ==
  [msg EXCEPT !.content = BufferFrom(BufferToString(msg.content)),
              !.xRetryCount = RetryCount(msg)]

\* The copy the retry branch publishes: the same body, the same properties,
\* the x-retry-count header one higher.
RetryMessage(msg) ==
  [msg EXCEPT !.content = BufferFrom(BufferToString(msg.content)),
              !.xRetryCount = RetryCount(msg) + 1]

\* A retry branch taken with retryCount <= maxRetries.
RepublishPastLimit(d) ==
  /\ d \in inflight /\ d.pc = "decide"
  /\ RetryCount(d.msg) <= maxRetries
  /\ queue' = [queue EXCEPT ![d.q] = Append(@, [d.msg EXCEPT
                   !.content = BufferFrom(BufferToString(d.msg.content)),
                   !.xRetryCount = RetryCount(d.msg) + 1])]
  /\ inflight' = inflight \ {d}
  /\ lastSettle' = [op |-> "ack", requeue |-> FALSE, msg |-> d.msg]
  /\ UNCHANGED <<dbVars, reqs, envVars, mediaVars, countVars, execs, lastReq>>

\* Republish with the header left as it was received.
RepublishSameCount(d) ==
  /\ d \in inflight /\ d.pc = "decide"
  /\ RetryCount(d.msg) < maxRetries
  /\ queue' = [queue EXCEPT ![d.q] = Append(@, d.msg)]
  /\ ChannelAck(d)
  /\ UNCHANGED <<dbVars, reqs, envVars, mediaVars, countVars, execs, lastReq>>

\* retryCount < maxRetries: channel.sendToQueue(queue, copy, properties);
\* channel.ack(msg).  Both calls are synchronous: no other callback of the
\* worker runs between them.
Republish(d) ==
  /\ d \in inflight /\ d.pc = "decide"
  /\ RetryCount(d.msg) < maxRetries
  /\ queue' = [queue EXCEPT ![d.q] = Append(@, RetryMessage(d.msg))]
  /\ ChannelAck(d)
  /\ UNCHANGED <<dbVars, reqs, envVars, mediaVars, countVars, execs, lastReq>>

\* error instanceof Error ? error.message : 'Unknown error'
TerminalErrorText(err) == err

\* retryCount >= maxRetries, AI consumer:
\* try { Job.findOneAndUpdate({productId, type}, failed) } catch { log },
\* no status in the filter
AITerminalWrite(d) ==
  /\ d \in inflight /\ d.q = QAI /\ d.pc = "decide"
  /\ RetryCount(d.msg) >= maxRetries
  /\ jobs' = IF IsObjectIdString(d.data.productId)
               THEN FailFirst(JobsOf(CastObjectId(d.data.productId), "ai_content"),
                              TerminalErrorText(d.err))
               ELSE jobs
  /\ inflight' = Goto(d, "termNack")
  /\ UNCHANGED <<products, videos, HandlerFrame>>

\* retryCount >= maxRetries, video consumer: the Job failure write, and
\* Video.findByIdAndUpdate(videoId, failed) when the message carries a videoId
VTerminalWrite(d) ==
  /\ d \in inflight /\ d.q = QVIDEO /\ d.pc = "decide"
  /\ RetryCount(d.msg) >= maxRetries
  /\ jobs' = VideoFailJobs(d, TerminalErrorText(d.err))
  /\ videos' = IF d.data.videoId # NoVideo
                 THEN VideoFailVideos(d.data.videoId, TerminalErrorText(d.err))
                 ELSE videos
  /\ inflight' = Goto(d, "termNack")
  /\ UNCHANGED <<products, HandlerFrame>>

\* channel.nack(msg, false, false) after the terminal failure write
TerminalNack(d) ==
  /\ d \in inflight /\ d.pc = "termNack"
  /\ inflight' = inflight \ {d}
  /\ ChannelNack(d.q, d.msg, FALSE, queue[d.q])
  /\ UNCHANGED <<dbVars, reqs, envVars, mediaVars, countVars, execs, lastReq>>

\* ---- environment
Injective(s) == \A i, k \in DOMAIN s : s[i] = s[k] => i = k
OrdersOf(S) == {s \in [1..Cardinality(S) -> S] : Injective(s)}

\* The worker process dies: every handler is gone and the broker puts the
\* unsettled deliveries back at the head of their queues, before the messages
\* that are pending there.
CrashRequeue(pending) ==
  /\ nCrash < MaxCrashes
  /\ inflight # {}
  /\ nCrash' = nCrash + 1
  /\ inflight' = {}
  /\ \E ai \in OrdersOf(InFlightOn(QAI)), vi \in OrdersOf(InFlightOn(QVIDEO)) :
       queue' = [q \in QUEUE_NAMES |->
                   IF q = QAI
                     THEN [i \in DOMAIN ai |-> ai[i].msg] \o pending[q]
                     ELSE [i \in DOMAIN vi |-> vi[i].msg] \o pending[q]]
  /\ UNCHANGED <<dbVars, reqs, envVars, mediaVars, nReq, nExt, nClear, histVars>>

WorkerCrash == CrashRequeue(queue)

\* The worker process dies in the retry branch between channel.sendToQueue
\* and channel.ack: the copy is out, the original was never acknowledged.
WorkerCrashAfterSend(d) ==
  /\ d \in inflight /\ d.pc = "decide"
  /\ RetryCount(d.msg) < maxRetries
  /\ CrashRequeue([queue EXCEPT ![d.q] = Append(@, RetryMessage(d.msg))])

\* Runs with one enqueue request, a clear request and a crash of the worker
\* process.
Next ==
  \/ \E p \in Products : GenerateContentCheck(p, MaxRequests)
  \/ \E r \in reqs : GenerateContentCreate(r)
  \/ \E r \in reqs : GenerateContentPublish(r)
  \/ \E p \in Products : RegenerateCreate(p, MaxRequests)
  \/ \E r \in reqs : RegeneratePublish(r)
  \/ \E p \in Products : VideoGeneratePublish(p, MaxRequests)
  \/ \E r \in reqs : VideoGenerateCreate(r)
  \/ \E p \in Products \cup {0} : ClearJobs(p)
  \/ \E q \in QUEUE_NAMES : DeliverJob(q)
  \/ \E d \in inflight : AIActivate(d)
  \/ \E d \in inflight : AIMarkProcessing(d)
  \/ \E d \in inflight : AIProgress20(d)
  \/ \E d \in inflight : AIProgress80(d)
  \/ \E d \in inflight : AISaveProduct(d)
  \/ \E d \in inflight : AIComplete(d)
  \/ \E d \in inflight : AICatchProduct(d)
  \/ \E d \in inflight : AICatchJob(d)
  \/ \E d \in inflight : VActivate(d)
  \/ \E d \in inflight : VCreateVideo(d)
  \/ \E d \in inflight : VProcessScenes(d)
  \/ \E d \in inflight : VEncode(d)
  \/ \E d \in inflight : VThumbnail(d)
  \/ \E w \in progressWrites : VProgressApply(w)
  \/ \E d \in inflight : VSaveVideo(d)
  \/ \E d \in inflight : VComplete(d)
  \/ \E d \in inflight : VCatchJob(d)
  \/ \E d \in inflight : VCatchVideo(d)
  \/ \E d \in inflight : Ack(d)
  \/ \E d \in inflight : Republish(d)
  \/ \E d \in inflight : AITerminalWrite(d)
  \/ \E d \in inflight : VTerminalWrite(d)
  \/ \E d \in inflight : TerminalNack(d)
  \/ WorkerCrash
  \/ \E d \in inflight : WorkerCrashAfterSend(d)

Spec == Init /\ [][Next]_vars

\* Runs with two enqueue requests and both consumers, each delivery handled
\* once: a delivery whose handler failed stays unsettled.
EnqueueNext ==
  \/ \E p \in Products : GenerateContentCheck(p, MaxEnqueues)
  \/ \E r \in reqs : GenerateContentCreate(r)
  \/ \E r \in reqs : GenerateContentPublish(r)
  \/ \E p \in Products : RegenerateCreate(p, MaxEnqueues)
  \/ \E r \in reqs : RegeneratePublish(r)
  \/ \E p \in Products : VideoGeneratePublish(p, MaxEnqueues)
  \/ \E r \in reqs : VideoGenerateCreate(r)
  \/ \E q \in QUEUE_NAMES : DeliverJob(q)
  \/ \E d \in inflight : AIActivate(d)
  \/ \E d \in inflight : AIMarkProcessing(d)
  \/ \E d \in inflight : AIProgress20(d)
  \/ \E d \in inflight : AIProgress80(d)
  \/ \E d \in inflight : AISaveProduct(d)
  \/ \E d \in inflight : AIComplete(d)
  \/ \E d \in inflight : AICatchProduct(d)
  \/ \E d \in inflight : AICatchJob(d)
  \/ \E d \in inflight : VActivate(d)
  \/ \E d \in inflight : VCreateVideo(d)
  \/ \E d \in inflight : VProcessScenes(d)
  \/ \E d \in inflight : VEncode(d)
  \/ \E d \in inflight : VThumbnail(d)
  \/ \E w \in progressWrites : VProgressApply(w)
  \/ \E d \in inflight : VSaveVideo(d)
  \/ \E d \in inflight : VComplete(d)
  \/ \E d \in inflight : VCatchJob(d)
  \/ \E d \in inflight : VCatchVideo(d)
  \/ \E d \in inflight : Ack(d)

EnqueueSpec == Init /\ [][EnqueueNext]_vars

\* Runs with one enqueue request, a foreign publisher and both consumers.
ForeignNext ==
  \/ \E p \in Products : GenerateContentCheck(p, MaxRequests)
  \/ \E r \in reqs : GenerateContentCreate(r)
  \/ \E r \in reqs : GenerateContentPublish(r)
  \/ \E p \in Products : RegenerateCreate(p, MaxRequests)
  \/ \E r \in reqs : RegeneratePublish(r)
  \/ \E p \in Products : VideoGeneratePublish(p, MaxRequests)
  \/ \E r \in reqs : VideoGenerateCreate(r)
  \/ \E q \in QUEUE_NAMES, body \in ExternalBodies : ExternalPublish(q, body)
  \/ \E q \in QUEUE_NAMES : DeliverMalformed(q)
  \/ \E q \in QUEUE_NAMES : DeliverNull(q)
  \/ \E q \in QUEUE_NAMES : DeliverJob(q)
  \/ \E d \in inflight : AIActivate(d)
  \/ \E d \in inflight : AIMarkProcessing(d)
  \/ \E d \in inflight : AIProgress20(d)
  \/ \E d \in inflight : AIProgress80(d)
  \/ \E d \in inflight : AISaveProduct(d)
  \/ \E d \in inflight : AIComplete(d)
  \/ \E d \in inflight : AICatchProduct(d)
  \/ \E d \in inflight : AICatchJob(d)
  \/ \E d \in inflight : VActivate(d)
  \/ \E d \in inflight : VCreateVideo(d)
  \/ \E d \in inflight : VProcessScenes(d)
  \/ \E d \in inflight : VEncode(d)
  \/ \E d \in inflight : VThumbnail(d)
  \/ \E w \in progressWrites : VProgressApply(w)
  \/ \E d \in inflight : VSaveVideo(d)
  \/ \E d \in inflight : VComplete(d)
  \/ \E d \in inflight : VCatchJob(d)
  \/ \E d \in inflight : VCatchVideo(d)
  \/ \E d \in inflight : Ack(d)
  \/ \E d \in inflight : Republish(d)
  \/ \E d \in inflight : AITerminalWrite(d)
  \/ \E d \in inflight : VTerminalWrite(d)
  \/ \E d \in inflight : TerminalNack(d)

ForeignSpec == Init /\ [][ForeignNext]_vars

\* ------------------------------------------- the connection manager (server)
\* Everything but the connection manager's own state.
ConnFrame == <<dbVars, brokerVars, reqs, sceneVars, lastRes, mediaVars, countVars, histVars>>

\* The module has just been imported: initPromise = initializeRabbitMQ() is
\* running, nothing is connected, initializeQueues() has not run.
StartupInit ==
  /\ connection = "null"
  /\ channel = NullChannel
  /\ rabbitmqAvailable = FALSE
  /\ queuesInitialized = FALSE
  /\ brokerUp \in BOOLEAN
  /\ everAvailable = FALSE
  /\ jobs = <<>>
  /\ videos = <<>>
  /\ queue = [q \in QUEUE_NAMES |-> <<>>]
  /\ inflight = {}
  /\ reqs = {}
  /\ initPc = "connect"
  /\ reconnectTimer = FALSE
  /\ progressWrites = {}
  /\ files = {}
  /\ sceneIn = NoSceneInput
  /\ scenes = NoScenes
  /\ compIn = NoCompInput /\ comp = NoComp /\ stats = NoStats
  /\ nReq = 0 /\ nExt = 0 /\ nCrash = 0 /\ nClear = 0 /\ nOutage = 0
  /\ execs = [i \in JobIds |-> 0]
  /\ lastSettle = NoSettle
  /\ lastReq = NoRequest
  /\ lastRes = NoResponse

\* catch of initializeRabbitMQ: everything is reset and false is returned.
\* No timer is set here.
InitCatch ==
  /\ rabbitmqAvailable' = FALSE
  /\ connection' = "null"
  /\ channel' = NullChannel
  /\ initPc' = "idle"
  /\ UNCHANGED <<queuesInitialized, reconnectTimer, brokerUp, nOutage, everAvailable>>

\* An initializeRabbitMQ that sets rabbitmqAvailable as soon as the
\* connection is there, before the channel exists and the queues are declared.
InitConnectAvailableEarly ==
  /\ initPc = "connect"
  /\ IF brokerUp
       THEN /\ connection' = "open"
            /\ initPc' = "createChannel"
            /\ rabbitmqAvailable' = TRUE
            /\ UNCHANGED <<queuesInitialized, channel, reconnectTimer,
                           brokerUp, nOutage, everAvailable>>
       ELSE InitCatch
  /\ UNCHANGED ConnFrame

\* connection = await amqp.connect(url)
InitConnect ==
  /\ initPc = "connect"
  /\ IF brokerUp
       THEN /\ connection' = "open"
            /\ initPc' = "createChannel"
            /\ UNCHANGED <<queuesInitialized, rabbitmqAvailable, channel, reconnectTimer,
                           brokerUp, nOutage, everAvailable>>
       ELSE InitCatch
  /\ UNCHANGED ConnFrame

\* channel = await connection.createChannel()
InitCreateChannel ==
  /\ initPc = "createChannel"
  /\ IF brokerUp
       THEN /\ channel' = [state |-> "open", asserted |-> {}, consumers |-> {}]
            /\ initPc' = "assertQueues"
            /\ UNCHANGED <<queuesInitialized, rabbitmqAvailable, connection, reconnectTimer,
                           brokerUp, nOutage, everAvailable>>
       ELSE InitCatch
  /\ UNCHANGED ConnFrame

\* await Promise.all(assertQueue(each of QUEUE_NAMES, {durable: true}));
\* rabbitmqAvailable = true; the 'error' and 'close' handlers are registered.
\* When this is initPromise, the continuation of startServer runs in the same
\* turn: ensureRabbitMQ().then(ready => initializeQueues()), which sets
\* queuesInitialized.  A reconnect has no such continuation.
InitAssertQueues ==
  /\ initPc = "assertQueues"
  /\ IF brokerUp
       THEN /\ channel' = [channel EXCEPT !.asserted = DurableQueues]
            /\ rabbitmqAvailable' = TRUE
            /\ everAvailable' = TRUE
            /\ queuesInitialized' = (queuesInitialized \/ ~everAvailable)
            /\ initPc' = "idle"
            /\ UNCHANGED <<connection, reconnectTimer, brokerUp, nOutage>>
       ELSE InitCatch
  /\ UNCHANGED ConnFrame

\* connection.on('close'): rabbitmqAvailable = false and
\* setTimeout(initializeRabbitMQ, 5000).  The connection drops with the
\* broker staying up (up) or going away.
ConnectionClose(up) ==
  /\ connection = "open" /\ rabbitmqAvailable /\ initPc = "idle"
  /\ nOutage < MaxOutages
  /\ nOutage' = nOutage + 1
  /\ brokerUp' = up
  /\ rabbitmqAvailable' = FALSE
  /\ connection' = "closed"
  /\ channel' = [channel EXCEPT !.state = "closed"]
  /\ reconnectTimer' = TRUE
  /\ UNCHANGED <<queuesInitialized, initPc, everAvailable>>
  /\ UNCHANGED ConnFrame

\* channel.on('close'): the channel is closed by a channel-level error; the
\* handler only logs.
ChannelClose ==
  /\ channel.state = "open" /\ rabbitmqAvailable /\ initPc = "idle"
  /\ nOutage < MaxOutages
  /\ nOutage' = nOutage + 1
  /\ channel' = [channel EXCEPT !.state = "closed"]
  /\ UNCHANGED <<queuesInitialized, rabbitmqAvailable, connection, initPc, reconnectTimer,
                 brokerUp, everAvailable>>
  /\ UNCHANGED ConnFrame

\* The 5000 ms timer of the 'close' handler fires: initializeRabbitMQ()
ReconnectTimerFires ==
  /\ reconnectTimer
  /\ initPc = "idle"
  /\ reconnectTimer' = FALSE
  /\ initPc' = "connect"
  /\ UNCHANGED <<queuesInitialized, rabbitmqAvailable, connection, channel, brokerUp,
                 nOutage, everAvailable>>
  /\ UNCHANGED ConnFrame

\* The broker goes away while initializeRabbitMQ is running.
BrokerDown ==
  /\ brokerUp /\ initPc # "idle"
  /\ nOutage < MaxOutages
  /\ nOutage' = nOutage + 1
  /\ brokerUp' = FALSE
  /\ UNCHANGED <<queuesInitialized, rabbitmqAvailable, connection, channel, initPc,
                 reconnectTimer, everAvailable>>
  /\ UNCHANGED ConnFrame

\* The broker is reachable again.
BrokerUp ==
  /\ ~brokerUp
  /\ brokerUp' = TRUE
  /\ UNCHANGED <<queuesInitialized, rabbitmqAvailable, connection, channel, initPc,
                 reconnectTimer, nOutage, everAvailable>>
  /\ UNCHANGED ConnFrame

ConnInit == ProductsInit({1}, {0}) /\ StartupInit

\* The server process: its connection manager and its routes.  The consumers
\* run in the worker process, on a connection of their own.
ConnManagerNext ==
  \/ InitConnect
  \/ InitCreateChannel
  \/ InitAssertQueues
  \/ \E up \in BOOLEAN : ConnectionClose(up)
  \/ ChannelClose
  \/ ReconnectTimerFires
  \/ BrokerDown
  \/ BrokerUp

ConnNext ==
  \/ ConnManagerNext
  \/ \E p \in Products : GenerateContentCheck(p, MaxRequests)
  \/ \E r \in reqs : GenerateContentCreate(r)
  \/ \E r \in reqs : GenerateContentPublish(r)
  \/ \E p \in Products : GenerateContentSync(p, MaxRequests)
  \/ \E r \in reqs : GenerateContentSyncCleanup(r)
  \/ \E p \in Products : RegenerateCreate(p, MaxRequests)
  \/ \E r \in reqs : RegeneratePublish(r)
  \/ \E p \in Products : RegenerateSync(p, MaxRequests)
  \/ \E p \in Products : VideoGeneratePublish(p, MaxRequests)
  \/ \E r \in reqs : VideoGenerateCreate(r)

ConnSpec == ConnInit /\ [][ConnNext]_vars

\* The timer fires, every await of initializeRabbitMQ settles, and a broker
\* that went away comes back.
ConnFairness ==
  /\ WF_vars(InitConnect)
  /\ WF_vars(InitCreateChannel)
  /\ WF_vars(InitAssertQueues)
  /\ WF_vars(ReconnectTimerFires)
  /\ WF_vars(BrokerUp)

ConnLiveSpec == ConnSpec /\ ConnFairness

\* ------------------------------------------------------------ prepareScenes
\* Times are counted in tenths of a second: displayTime 3.5 is 35.
Seconds(n) == 10 * n
minDuration == Seconds(10)

\* Math.ceil(a / b) for positive a and b
Ceil(a, b) == (a + b - 1) \div b
\* Math.floor(a / b)
Floor(a, b) == a \div b
Max(a, b) == IF a >= b THEN a ELSE b

\* The first n scraped images, fallback images, key points, custom texts.
ScrapedImages(n) == [i \in 1..n |-> [from |-> "images", index |-> i]]
FallbackImages(n) == [i \in 1..n |-> [from |-> "fallbackImages", index |-> i]]
KeyPoints(n) == [i \in 1..n |-> [from |-> "keyPoints", index |-> i]]
CustomTexts(n) == [i \in 1..n |-> [from |-> "customText", index |-> i]]

\* The text '' of a scene without a text slide.
EmptyText == [from |-> "none", index |-> 0]

\* images = [...product.images, ...product.fallbackImages.images]
SceneImages(in) == in.images \o in.fallbackImages
\* textSlides = customText || product.aiContent?.keyPoints || []
\* (an array, also the empty one, is truthy)
TextSlides(in) == IF in.hasCustomText THEN in.customText ELSE in.keyPoints
\* minScenes rounded down instead of up.
MinScenesFloor(in) == Floor(minDuration, in.displayTime)
\* minScenes = Math.ceil(minDuration / sceneDuration)
MinScenes(in) == Ceil(minDuration, in.displayTime)
\* targetScenes that does not look at the text slides.
TargetScenesMinOnly(in) == MinScenes(in)
\* targetScenes = Math.max(minScenes, textSlides.length)
TargetScenes(in) == Max(MinScenes(in), Len(TextSlides(in)))

\* prepareScenes(product, template, customText): the scenes, or the error
\* thrown when there is no image.  (i counts from 1 here, from 0 in the code.)
prepareScenes(in) ==
  IF Len(SceneImages(in)) = 0
    THEN [called |-> TRUE, error |-> NoImagesError, list |-> <<>>]
    ELSE [called |-> TRUE, error |-> NoError,
          list |-> [i \in 1..TargetScenes(in) |->
                      [image |-> SceneImages(in)[((i - 1) % Len(SceneImages(in))) + 1],
                       text |-> IF i <= Len(TextSlides(in)) THEN TextSlides(in)[i] ELSE EmptyText,
                       duration |-> in.displayTime]]]

\* The arguments of a call: product.images, product.fallbackImages.images,
\* product.aiContent.keyPoints, config.customText (or none), the template's
\* displayTime, and what else generateVideo was asked for.
SceneInputs ==
  {[images |-> ScrapedImages(ni), fallbackImages |-> FallbackImages(nf),
    keyPoints |-> KeyPoints(nk),
    hasCustomText |-> nc >= 0,
    customText |-> IF nc >= 0 THEN CustomTexts(nc) ELSE <<>>,
    displayTime |-> d, music |-> mu, narration |-> na] :
     ni \in 0..MaxScraped, nf \in 0..MaxFallback, nk \in 0..MaxKeyPoints,
     nc \in -1..MaxCustomText, d \in DisplayTimes, mu \in BOOLEAN, na \in BOOLEAN}

\* generateVideo reaches `scenes = await this.prepareScenes(product, template,
\* config.customText)`.
PrepareScenes ==
  /\ ~scenes.called
  /\ scenes' = prepareScenes(sceneIn)
  /\ UNCHANGED <<dbVars, brokerVars, reqs, connVars, sceneIn, compIn, comp, stats, lastRes,
                 mediaVars, countVars, histVars>>

ScenesInit ==
  /\ ProductsInit({1}, {0}) /\ ConnectedInit /\ QuietInit
  /\ sceneIn \in SceneInputs
  /\ scenes = NoScenes
  /\ compIn = NoCompInput /\ comp = NoComp /\ stats = NoStats

ScenesNext == PrepareScenes

ScenesSpec == ScenesInit /\ [][ScenesNext]_vars

\* ------------------------------------------------- the video pipeline alone
\* Products with and without scraped and fallback images.
VideoInit == ProductsInit({0, 1}, {0, 1}) /\ ConnectedInit /\ IdleInit

\* POST /videos/generate and the video consumer with its retries.
VideoNext ==
  \/ \E p \in Products : VideoGeneratePublish(p, MaxRequests)
  \/ \E r \in reqs : VideoGenerateCreate(r)
  \/ DeliverJob(QVIDEO)
  \/ \E d \in inflight : VActivate(d)
  \/ \E d \in inflight : VCreateVideo(d)
  \/ \E d \in inflight : VProcessScenes(d)
  \/ \E d \in inflight : VEncode(d)
  \/ \E d \in inflight : VThumbnail(d)
  \/ \E w \in progressWrites : VProgressApply(w)
  \/ \E d \in inflight : VSaveVideo(d)
  \/ \E d \in inflight : VComplete(d)
  \/ \E d \in inflight : VCatchJob(d)
  \/ \E d \in inflight : VCatchVideo(d)
  \/ \E d \in inflight : Ack(d)
  \/ \E d \in inflight : Republish(d)
  \/ \E d \in inflight : VTerminalWrite(d)
  \/ \E d \in inflight : TerminalNack(d)

VideoSpec == VideoInit /\ [][VideoNext]_vars

\* ------------------------------------------- generateVideo, file by file
\* One run of generateVideo after prepareScenes: processScenes, the optional
\* narration, createVideoFromScenes, generateThumbnail and the upload, with
\* the files each step creates and deletes.
CompFrame == <<dbVars, brokerVars, reqs, connVars, sceneIn, scenes, stats, lastRes,
               mediaVars, countVars, histVars>>

\* join(tempPath, `scene-${i}-${nanoid()}.png`), `input-${videoId}.txt`,
\* `${videoId}_narration.mp3`
SceneFile(i) == [kind |-> "scene", index |-> i]
InputListFile == [kind |-> "inputList", index |-> 0]
NarrationFile == [kind |-> "narration", index |-> 0]

\* new Error(`Failed to process scene ${i}: ${errorMessage}`)
SceneError(i) == [kind |-> "Failed to process scene", index |-> i]
\* the err of ffmpeg's 'error' event, of the TTS or of the upload
StepError(kind) == [kind |-> kind, index |-> -1]

\* The config and environment of a run: the number of prepared scenes,
\* config.musicId, whether the Music document and its file exist,
\* config.enableVoiceNarration && config.narrationText, ttsService.isAvailable(),
\* googleDriveService.isEnabled().
CompInputs ==
  [nScenes : 1..MaxSceneCount, musicId : BOOLEAN, musicExists : BOOLEAN,
   narration : BOOLEAN, ttsAvailable : BOOLEAN, driveEnabled : BOOLEAN]

\* The run at the call of processScenes.
NewComp == [NoComp EXCEPT !.pc = "processScenes"]

CompFail(err) == [comp EXCEPT !.pc = "failed", !.error = err]

\* A processScenes whose catch records the error and goes on with the next
\* scene.
ProcessSceneSkips ==
  /\ comp.pc = "processScenes" /\ comp.i < compIn.nScenes
  /\ \/ comp' = [comp EXCEPT !.temp = @ \cup {SceneFile(comp.i)},
                             !.i = @ + 1,
                             !.pc = IF comp.i + 1 = compIn.nScenes THEN "narration" ELSE @]
     \/ comp' = [comp EXCEPT !.error = SceneError(comp.i),
                             !.i = @ + 1,
                             !.pc = IF comp.i + 1 = compIn.nScenes THEN "narration" ELSE @]
  /\ UNCHANGED <<compIn, CompFrame>>

\* processScenes, one pass of the loop: the image of scene i is fetched,
\* decoded, resized and written to its frame file, or the pass throws.
ProcessScene ==
  /\ comp.pc = "processScenes" /\ comp.i < compIn.nScenes
  /\ \/ comp' = [comp EXCEPT !.temp = @ \cup {SceneFile(comp.i)},
                             !.i = @ + 1,
                             !.pc = IF comp.i + 1 = compIn.nScenes THEN "narration" ELSE @]
     \/ comp' = CompFail(SceneError(comp.i))
  /\ UNCHANGED <<compIn, CompFrame>>

\* if (config.enableVoiceNarration && config.narrationText): generateSpeech
\* writes the narration file; when it throws the run goes on without one.
GenerateNarration ==
  /\ comp.pc = "narration"
  /\ IF compIn.narration /\ compIn.ttsAvailable
       THEN \/ comp' = [comp EXCEPT !.pc = "createVideo", !.narrationAudioPath = TRUE,
                                    !.temp = @ \cup {NarrationFile}]
            \/ comp' = [comp EXCEPT !.pc = "createVideo"]
       ELSE comp' = [comp EXCEPT !.pc = "createVideo"]
  /\ UNCHANGED <<compIn, CompFrame>>

\* createVideoFromScenes up to command.run(): the input list is written, the
\* narration is attached at once when there is no musicId, a musicId starts
\* Music.findById(musicId) whose .then() attaches the inputs, and run() is
\* called without waiting for it.
CreateVideoFromScenes ==
  /\ comp.pc = "createVideo"
  /\ LET hasMusic == compIn.musicId
         hasNarration == comp.narrationAudioPath /\ NarrationFile \in comp.temp
     IN comp' = [comp EXCEPT
                   !.pc = "prepare",
                   !.temp = @ \cup {InputListFile},
                   !.lookup = IF hasMusic THEN "pending" ELSE "none",
                   !.audio = IF ~hasMusic /\ hasNarration THEN {"narration"} ELSE {}]
  /\ UNCHANGED <<compIn, CompFrame>>

\* Music.findById(musicId).then(music => ...): when the document and its
\* file exist, the music (and, when there is a narration, the narration and
\* the mix filter) are added to the command object.
MusicLookupThen ==
  /\ comp.lookup = "pending"
  /\ LET hasNarration == comp.narrationAudioPath /\ NarrationFile \in comp.temp
     IN comp' = [comp EXCEPT
                   !.lookup = "done",
                   !.audio = IF compIn.musicExists
                               THEN IF hasNarration THEN {"music", "narration"}
                                                    ELSE {"music"}
                               ELSE @,
                   !.mixed = compIn.musicExists /\ hasNarration]
  /\ UNCHANGED <<compIn, CompFrame>>

\* run(): the encoder process is started with the inputs the command object
\* has at that moment.
FfmpegStart ==
  /\ comp.pc = "prepare"
  /\ comp' = [comp EXCEPT !.pc = "encoding", !.started = TRUE,
                          !.startedAudio = comp.audio, !.startedMixed = comp.mixed]
  /\ UNCHANGED <<compIn, CompFrame>>

\* .on('progress', progress => { if (progressCallback && progress.percent)
\*   progressCallback(progress.percent / 100) }), with generateVideo's
\* callback progress => progressCallback(50 + progress * 0.4)
FfmpegProgress(percent) ==
  /\ comp.pc = "encoding"
  /\ Len(comp.reported) < MaxReports
  /\ percent # 0
  /\ comp' = [comp EXCEPT !.reported = Append(@, [percent |-> percent,
                                                  progress |-> EncoderProgress(percent)])]
  /\ UNCHANGED <<compIn, CompFrame>>

\* .on('end'): the frame files, the input list and the narration file are
\* deleted; the video file is there.
FfmpegEnd ==
  /\ comp.pc = "encoding"
  /\ comp' = [comp EXCEPT !.pc = "thumbnail", !.temp = {}, !.out = @ \cup {"video"}]
  /\ UNCHANGED <<compIn, CompFrame>>

\* .on('error', err => reject(err))
FfmpegError ==
  /\ comp.pc = "encoding"
  /\ comp' = CompFail(StepError("ffmpeg"))
  /\ UNCHANGED <<compIn, CompFrame>>

\* generateThumbnail(videoPath, videoId)
GenerateThumbnail ==
  /\ comp.pc = "thumbnail"
  /\ \/ comp' = [comp EXCEPT !.pc = "upload", !.out = @ \cup {"thumbnail"}]
     \/ comp' = CompFail(StepError("thumbnail"))
  /\ UNCHANGED <<compIn, CompFrame>>

\* googleDriveService.uploadFile of both files and unlinkSync of the local
\* ones, or local storage; then the Video document is saved.
UploadOutputs ==
  /\ comp.pc = "upload"
  /\ IF compIn.driveEnabled
       THEN \/ comp' = [comp EXCEPT !.pc = "done", !.uploaded = TRUE, !.out = {}]
            \/ comp' = CompFail(StepError("upload"))
       ELSE comp' = [comp EXCEPT !.pc = "done"]
  /\ UNCHANGED <<compIn, CompFrame>>

CompInit ==
  /\ ProductsInit({1}, {0}) /\ ConnectedInit /\ QuietInit
  /\ sceneIn = NoSceneInput /\ scenes = NoScenes
  /\ stats = NoStats
  /\ compIn \in CompInputs
  /\ comp = NewComp

CompNext ==
  \/ ProcessScene
  \/ GenerateNarration
  \/ CreateVideoFromScenes
  \/ MusicLookupThen
  \/ FfmpegStart
  \/ \E percent \in FfmpegPercents : FfmpegProgress(percent)
  \/ FfmpegEnd
  \/ FfmpegError
  \/ GenerateThumbnail
  \/ UploadOutputs

CompSpec == CompInit /\ [][CompNext]_vars

\* ------------------------------------------------------- the status queries
StatsFrame == <<dbVars, brokerVars, reqs, connVars, sceneIn, scenes, compIn, comp, lastRes,
                mediaVars, countVars, histVars>>

\* Job.countDocuments({type, status}); type "any" stands for a filter without
\* type.
CountDocuments(type, status) ==
  Cardinality({i \in DOMAIN jobs : /\ type \in {"any", jobs[i].type}
                                   /\ jobs[i].status = status})

\* const [waiting, active, completed, failed] = await Promise.all([...])
JobCounts(type) ==
  [waiting   |-> CountDocuments(type, "waiting"),
   active    |-> CountDocuments(type, "active"),
   completed |-> CountDocuments(type, "completed"),
   failed    |-> CountDocuments(type, "failed")]

Total(counts) == counts.waiting + counts.active + counts.completed + counts.failed

\* The object getQueueStats, getAIContentStats and getVideoJobStats return.
StatsOf(call, type) ==
  [n |-> stats.n + 1, call |-> call, success |-> TRUE, mode |-> "function",
   counts |-> JobCounts(type), hasTotal |-> TRUE, total |-> Total(JobCounts(type)),
   hasAvailable |-> call = "getQueueStats",
   available |-> call = "getQueueStats" /\ rabbitmqAvailable]

\* getQueueStats()
GetQueueStats ==
  /\ stats.n < MaxQueries
  /\ stats' = StatsOf("getQueueStats", "any")
  /\ UNCHANGED StatsFrame

\* getAIContentStats()
GetAIContentStats ==
  /\ stats.n < MaxQueries
  /\ stats' = StatsOf("getAIContentStats", "ai_content")
  /\ UNCHANGED StatsFrame

\* getVideoJobStats()
GetVideoJobStats ==
  /\ stats.n < MaxQueries
  /\ stats' = StatsOf("getVideoJobStats", "generate_video")
  /\ UNCHANGED StatsFrame

\* GET /ai/queue/stats.  Without initialized queues it answers the four
\* counts of the ai_content Jobs in mode 'database'.  With them it takes
\* aiContentQueue from '@jobs/queue', which exports no such name, so
\* aiContentQueue.getJobCounts() throws a TypeError and the catch answers
\* {success: false, error}.
QueueStatsRoute ==
  /\ stats.n < MaxQueries
  /\ stats' = IF ~queuesInitialized
                THEN [NoStats EXCEPT !.n = stats.n + 1, !.call = "GET /ai/queue/stats",
                                     !.success = TRUE, !.mode = "database",
                                     !.counts = JobCounts("ai_content")]
                ELSE [NoStats EXCEPT !.n = stats.n + 1, !.call = "GET /ai/queue/stats",
                                     !.success = FALSE, !.mode = "none"]
  /\ UNCHANGED StatsFrame

\* The server with its connection manager, routes and status queries, and
\* the handlers of the worker process that move the Jobs through their
\* statuses.
StatsNext ==
  \/ ConnNext
  \/ \E q \in QUEUE_NAMES : DeliverJob(q)
  \/ \E d \in inflight : AIActivate(d)
  \/ \E d \in inflight : AIMarkProcessing(d)
  \/ \E d \in inflight : AIProgress20(d)
  \/ \E d \in inflight : AIProgress80(d)
  \/ \E d \in inflight : AISaveProduct(d)
  \/ \E d \in inflight : AIComplete(d)
  \/ \E d \in inflight : AICatchProduct(d)
  \/ \E d \in inflight : AICatchJob(d)
  \/ \E d \in inflight : VActivate(d)
  \/ \E d \in inflight : VCreateVideo(d)
  \/ \E d \in inflight : VProcessScenes(d)
  \/ \E d \in inflight : VEncode(d)
  \/ \E d \in inflight : VThumbnail(d)
  \/ \E w \in progressWrites : VProgressApply(w)
  \/ \E d \in inflight : VSaveVideo(d)
  \/ \E d \in inflight : VComplete(d)
  \/ \E d \in inflight : VCatchJob(d)
  \/ \E d \in inflight : VCatchVideo(d)
  \/ \E d \in inflight : Ack(d)
  \/ GetQueueStats
  \/ GetAIContentStats
  \/ GetVideoJobStats
  \/ QueueStatsRoute

StatsSpec == ConnInit /\ [][StatsNext]_vars

\* -------------------------------------------------------------- properties
JobTypes == {"ai_content", "generate_video"}

Parses(msg) == JSONParses(BufferToString(msg.content))
DataOf(msg) == JSONParse(BufferToString(msg.content))

\* The messages the broker holds for a queue: pending or delivered and unsettled.
BrokerMessages(q) ==
  {queue[q][i] : i \in DOMAIN queue[q]} \cup {d.msg : d \in InFlightOn(q)}

\* The number of pending messages of a queue whose body does not parse.
MalformedPending(q) == Cardinality({i \in DOMAIN queue[q] : ~Parses(queue[q][i])})

\* C1: in every reachable state, every (product, type) has at most one Job
\* document whose status is waiting or active.
C1_AtMostOnePending ==
  \A p \in Products, type \in JobTypes : Cardinality(PendingJobs(p, type)) <= 1

\* C2: a handler error makes a Job document failed only after the last
\* attempt, that is once the message of the request has been executed
\* maxRetries + 1 times.
C2_FailedOnlyAfterLastAttempt ==
  \A i \in DOMAIN jobs :
    (jobs[i].status = "failed" /\ jobs[i].error # "Cancelled by user")
      => \E r \in JobIds : execs[r] >= maxRetries + 1

\* C3: an enqueue request that starts while a waiting or active Job document of
\* its (product, type) exists is rejected with the id of that document, creates
\* no Job document and publishes no message.
C3_DuplicateRejected ==
  [][(nReq' = nReq + 1 /\ PendingJobs(lastReq'.p, lastReq'.type) # {})
       => /\ lastReq'.existingJobId = First(PendingJobs(lastReq'.p, lastReq'.type))
          /\ jobs' = jobs
          /\ queue' = queue
          /\ reqs' = reqs]_vars

\* C4: a message whose body does not parse is never handed to a handler and
\* never published again; the step that takes it from its queue nacks it
\* without requeue and touches nothing else, and no consumer ever settles such
\* a message in another way.
C4_MalformedDiscarded ==
  [][/\ \A d \in inflight' : Parses(d.msg)
     /\ (lastSettle'.op # "none" /\ ~Parses(lastSettle'.msg))
          => (lastSettle'.op = "nack" /\ ~lastSettle'.requeue)
     /\ \A q \in QUEUE_NAMES :
          /\ nExt' = nExt => MalformedPending(q)' <= MalformedPending(q)
          /\ MalformedPending(q)' < MalformedPending(q)
               => /\ ~Parses(Head(queue[q]))
                  /\ queue'[q] = Tail(queue[q])
                  /\ lastSettle' = [op |-> "nack", requeue |-> FALSE,
                                    msg |-> Head(queue[q])]
                  /\ UNCHANGED <<dbVars, inflight, execs>>]_vars

\* A malformed message was published, has been nacked, and none is left.
C4_MalformedWasNacked ==
  /\ nExt > 0
  /\ lastSettle.op = "nack" /\ ~Parses(lastSettle.msg)
  /\ \A q \in QUEUE_NAMES : MalformedPending(q) = 0

C6_TerminalFailureRecorded ==
  [][\A d \in inflight :
       (d.pc = "termNack" /\ d \notin inflight' /\ nCrash' = nCrash)
         => LET p == FindProduct(d.data.productId)
            IN /\ lastSettle' = [op |-> "nack", requeue |-> FALSE, msg |-> d.msg]
               /\ \A i \in JobsOf(p, JobType(d.q)) :
                    /\ jobs'[i].status = "failed"
                    /\ jobs'[i].error # NoError
                    /\ jobs'[i].completedAt
               /\ d.q = QAI => products'[p].status = "failed"
               /\ d.q = QVIDEO =>
                    \A v \in DOMAIN videos' : videos'[v].status = "failed"
               /\ nCrash = 0 =>
                    \A m \in BrokerMessages(d.q)' :
                      Parses(m) => DataOf(m).jobId # d.data.jobId]_vars

\* C7: no message the broker holds carries an x-retry-count above maxRetries;
\* a message that appears carries no x-retry-count (a first publish) or is the
\* copy of a failed delivery with the count one higher.  So the counts of one
\* job only grow, and a failure at maxRetries publishes nothing.
C7_RetryCountBounded ==
  [][\A q \in QUEUE_NAMES :
       /\ \A m \in BrokerMessages(q)' : RetryCount(m) <= maxRetries
       /\ \A m \in BrokerMessages(q)' \ BrokerMessages(q) :
            \/ m.xRetryCount = NoHeader
            \/ \E d \in InFlightOn(q) :
                 /\ d.pc = "decide"
                 /\ BufferToString(m.content) = BufferToString(d.msg.content)
                 /\ m.xRetryCount = RetryCount(d.msg) + 1]_vars

\* A delivery with x-retry-count = maxRetries failed and was rejected.
C7_FailureAtLimitRejected ==
  /\ lastSettle.op = "nack"
  /\ Parses(lastSettle.msg)
  /\ lastSettle.msg.xRetryCount = maxRetries
  /\ \A q \in QUEUE_NAMES : BrokerMessages(q) = {}

\* C8: while a Job document is waiting or active, the broker holds a message
\* for its (product, type), or the request that created it is about to publish
\* one.
C8_PendingJobHasMessage ==
  \A i \in DOMAIN jobs :
    NonTerminal(jobs[i]) =>
      \/ \E q \in QUEUE_NAMES :
           /\ JobType(q) = jobs[i].type
           /\ \E m \in BrokerMessages(q) :
                Parses(m) /\ FindProduct(DataOf(m).productId) = jobs[i].productId
      \/ \E r \in reqs : r.p = jobs[i].productId /\ r.pc = "publish"

\* C9: once the status of a Job document is completed or failed, no step
\* changes it.
C9_TerminalStatusFinal ==
  [][\A i \in DOMAIN jobs :
       jobs[i].status \in {"completed", "failed"}
         => jobs'[i].status = jobs[i].status]_vars

\* C10: no reachable state has a product 'ready' while an ai_content Job
\* document of it is failed, nor a Video document 'completed' while a
\* generate_video Job document of its product is failed.
C10_SubjectAgreesWithJob ==
  \A i \in DOMAIN jobs :
    jobs[i].status = "failed" =>
      /\ jobs[i].type = "ai_content" => products[jobs[i].productId].status # "ready"
      /\ jobs[i].type = "generate_video" =>
           \A v \in DOMAIN videos :
             videos[v].productId = jobs[i].productId => videos[v].status # "completed"

\* C11: the step that acknowledges a delivery after its handler returned finds
\* no Job document of the message's product and type waiting or active, finds
\* one of them completed with progress 100 and the result stored, and finds
\* the subject in its success state (the product 'ready' for an AI job, the
\* Video document the handler created 'completed' for a video job).
C11_AckAfterCompletion ==
  [][\A d \in inflight :
       (d.pc = "ack" /\ d \notin inflight' /\ nCrash' = nCrash)
         => LET p == FindProduct(d.data.productId)
            IN /\ lastSettle' = [op |-> "ack", requeue |-> FALSE, msg |-> d.msg]
               /\ PendingJobs(p, JobType(d.q)) = {}
               /\ \E i \in JobsOf(p, JobType(d.q)) :
                    /\ jobs[i].status = "completed"
                    /\ jobs[i].progress = Percent(100)
                    /\ jobs[i].result
               /\ d.q = QAI => products[p].status = "ready"
               /\ d.q = QVIDEO => videos[d.vid].status = "completed"]_vars

\* C12: no step lowers the progress of a video Job document, and the progress
\* of every video Job document stays within 0..100 percent, over the
\* checkpoints 10, 30, 50, the encoder's reports, 90, 95 and 100, whatever the
\* order in which the unawaited progress writes reach the database and across
\* retries of the message.
C12_ProgressMonotone ==
  [][\A i \in DOMAIN jobs :
       jobs[i].type = "generate_video"
         => /\ jobs'[i].progress >= jobs[i].progress
            /\ jobs'[i].progress \in 0..Percent(100)]_vars

\* The range half of C12 alone.
C12_ProgressInRange ==
  \A i \in DOMAIN jobs :
    jobs[i].type = "generate_video" => jobs[i].progress \in 0..Percent(100)

\* C13: whenever the manager has been available and is not (its connection
\* has closed), it is eventually available again with an open channel on
\* which every durable queue has been declared, also when the broker is away
\* at the time of the first reconnect attempt.
C13_Reconnects ==
  (everAvailable /\ ~rabbitmqAvailable)
    ~> (rabbitmqAvailable /\ channel.state = "open" /\ channel.asserted = DurableQueues)

\* The connection manager reports unavailable: getChannel() returns null.
ManagerUnavailable == ~rabbitmqAvailable \/ channel.state = "null"

\* C14: a step taken while the connection manager reports unavailable
\* publishes nothing, and an enqueue made in that step returns null: the AI
\* routes answer with the failure of the enqueue and POST /videos/generate
\* goes on to save no Job document.
C14_UnavailablePublishesNothing ==
  [][ManagerUnavailable
       => /\ queue' = queue
          /\ \A r \in reqs :
               (r.pc = "publish" /\ r \notin reqs') => ~lastRes'.success
          /\ (nReq' # nReq /\ lastReq'.type = "generate_video") => reqs' = reqs]_vars

\* C14 witness: an enqueue was attempted while the manager reported
\* unavailable after the queues had been initialized, it was answered with the
\* failure, and no queue holds a message.
C14_EnqueueRefused ==
  /\ queuesInitialized
  /\ ManagerUnavailable
  /\ lastRes.error \in {QueueFailedError, NullJobError, VideoQueueFailedError}
  /\ \A q \in QUEUE_NAMES : queue[q] = <<>>

\* C15: a step taken while the broker is unavailable to the server (the
\* queues were never initialized, or the manager reports unavailable, as it
\* does after a disconnect that followed a successful initialization) does not
\* answer a generate-content or video-generate request with the error of a
\* failed enqueue: the work is done synchronously instead.
C15_FallsBackWhenUnavailable ==
  [][((~queuesInitialized \/ ManagerUnavailable)
        /\ lastRes' # lastRes
        /\ lastRes'.route \in {"generate", "video"})
       => lastRes'.error \notin {QueueFailedError, VideoQueueFailedError}]_vars

\* The messages of request id the broker holds on queue q, among the pending
\* messages msgs and the unsettled deliveries ds.
PendingOfRequest(msgs, id) ==
  {k \in DOMAIN msgs : Parses(msgs[k]) /\ DataOf(msgs[k]).jobId = id}
UnsettledOfRequest(ds, q, id) == {d \in ds : d.q = q /\ d.data.jobId = id}

RouteQueue(route) == IF route = "video" THEN QVIDEO ELSE QAI

\* C16: the step that answers an enqueue request with success (queue mode)
\* leaves a Job document of the request's product and type, 'waiting' with
\* attempts 0, whose id is the dbJobId of the answer, and leaves exactly one
\* message of the request with the broker (pending or delivered and not yet
\* settled) on the queue of the type and none on the other queue; the pending
\* one is persistent, has no retry count (read as 0) and carries the
\* product's productId.
C16_SuccessfulEnqueue ==
  [][(lastRes' # lastRes /\ lastRes'.success /\ lastRes'.mode = "queue")
       => LET res == lastRes'
              q   == RouteQueue(res.route)
          IN /\ res.dbJobId \in DOMAIN jobs'
             /\ jobs'[res.dbJobId] = NewJob(res.p, JobType(q),
                                            IF res.route = "video" THEN res.id ELSE 0)
             /\ Len(jobs') <= Len(jobs) + 1
             /\ Cardinality(PendingOfRequest(queue'[q], res.id))
                  + Cardinality(UnsettledOfRequest(inflight', q, res.id)) = 1
             /\ \A k \in PendingOfRequest(queue'[q], res.id) :
                  /\ queue'[q][k].persistent
                  /\ queue'[q][k].xRetryCount = NoHeader
                  /\ DataOf(queue'[q][k]).productId = products[res.p].productId
             /\ \A o \in QUEUE_NAMES \ {q} :
                  /\ PendingOfRequest(queue'[o], res.id) = {}
                  /\ UnsettledOfRequest(inflight', o, res.id) = {}]_vars

\* The deliveries whose composition handler is executing: delivered, and the
\* consume callback has not reached its ack / retry / reject decision.
ExecutingHandlers(q) == {d \in InFlightOn(q) : d.pc \notin {"ack", "decide", "termNack"}}

\* C17: the video consumer holds at most one unacknowledged message, and so
\* at most one composition handler is executing.
C17_OneVideoAtATime ==
  /\ Cardinality(InFlightOn(QVIDEO)) <= 1
  /\ Cardinality(ExecutingHandlers(QVIDEO)) <= 1

\* C17 witness: a composition handler is executing while another message
\* waits on the video queue.
C17_SecondMessageWaits ==
  /\ ExecutingHandlers(QVIDEO) # {}
  /\ queue[QVIDEO] # <<>>

\* The scene the claim describes at position i (from 1) for a list of texts.
SceneOf(in, texts, i) ==
  [image |-> SceneImages(in)[((i - 1) % Len(SceneImages(in))) + 1],
   text |-> IF i <= Len(texts) THEN texts[i] ELSE EmptyText,
   duration |-> in.displayTime]

\* C18 as stated: for a non-empty candidate image list, prepareScenes returns
\* exactly max(ceil(10 s / d), len(keyPoints)) scenes, scene i showing
\* candidate i mod len(candidates) with key point i as its text, or the empty
\* text from len(keyPoints) on.
C18_ScenesFromKeyPoints ==
  (scenes.called /\ SceneImages(sceneIn) # <<>>)
    => /\ scenes.error = NoError
       /\ Len(scenes.list) = Max(Ceil(minDuration, sceneIn.displayTime),
                                 Len(sceneIn.keyPoints))
       /\ \A i \in DOMAIN scenes.list :
            scenes.list[i] = SceneOf(sceneIn, sceneIn.keyPoints, i)

\* C18, amended: the same with the texts being config.customText when the
\* request gave one (also an empty one), and the product's key points
\* otherwise.
C18_ScenesFromTextSlides ==
  (scenes.called /\ SceneImages(sceneIn) # <<>>)
    => LET texts == IF sceneIn.hasCustomText THEN sceneIn.customText
                                             ELSE sceneIn.keyPoints
       IN /\ scenes.error = NoError
          /\ Len(scenes.list) = Max(Ceil(minDuration, sceneIn.displayTime), Len(texts))
          /\ \A i \in DOMAIN scenes.list :
               scenes.list[i] = SceneOf(sceneIn, texts, i)

\* C18 witness: the second example of the claim has been computed: 5 images,
\* 3 key points, 5 s per scene, no custom text, giving 3 scenes.
C18_FiveImagesThreeKeyPoints ==
  /\ scenes.called
  /\ Len(SceneImages(sceneIn)) = 5
  /\ Len(sceneIn.keyPoints) = 3
  /\ ~sceneIn.hasCustomText
  /\ sceneIn.displayTime = Seconds(5)
  /\ Len(scenes.list) = 3

\* The sum of the durations of a scene list.
RECURSIVE SumDurations(_)
SumDurations(list) ==
  IF list = <<>> THEN 0 ELSE Head(list).duration + SumDurations(Tail(list))

\* C19: every scene of a derived scene list has duration d, the durations add
\* up to targetScenes times d, and the sum is at least 10 s, whether or not
\* music or narration was asked for.
C19_TotalDuration ==
  (scenes.called /\ scenes.error = NoError)
    => /\ \A i \in DOMAIN scenes.list : scenes.list[i].duration = sceneIn.displayTime
       /\ SumDurations(scenes.list) = TargetScenes(sceneIn) * sceneIn.displayTime
       /\ SumDurations(scenes.list) >= minDuration
       /\ scenes = prepareScenes([sceneIn EXCEPT !.music = ~@])
       /\ scenes = prepareScenes([sceneIn EXCEPT !.narration = ~@])

\* C19 witness: a scene time that does not divide 10 s (3.5 s) has been used,
\* with music and narration, and the list of 3 scenes lasts 10.5 s.
C19_UnevenSceneTime ==
  /\ scenes.called /\ scenes.error = NoError
  /\ sceneIn.displayTime = 35
  /\ sceneIn.music /\ sceneIn.narration
  /\ Len(scenes.list) = 3
  /\ SumDurations(scenes.list) = 105

\* Nothing of the last request is left to do: no route step, no message, no
\* delivery, no pending progress write.
RequestSettled ==
  /\ lastReq.type = "generate_video"
  /\ reqs = {}
  /\ queue[QVIDEO] = <<>>
  /\ inflight = {}
  /\ progressWrites = {}

\* C20: once a POST /videos/generate for a product without scraped and
\* without fallback images has run its course, a generate_video Job document
\* of the product is failed with the error that names the missing images; and
\* no video file and no thumbnail is written at any point.
C20_NoImagesJobFailed ==
  (lastReq.type = "generate_video" /\ NoImages(lastReq.p))
    => /\ files = {}
       /\ RequestSettled
            => \E i \in JobsOf(lastReq.p, "generate_video") :
                 /\ jobs[i].status = "failed"
                 /\ jobs[i].error = NoImagesError

\* C21: when the image of scene i cannot be fetched or decoded, the run is
\* aborted with an error naming index i: no scene from i on has a frame file,
\* no encoder input list is written, the encoder is never started and there
\* is no output file.
C21_SceneFailureAborts ==
  comp.error.kind = "Failed to process scene" =>
    /\ comp.pc = "failed"
    /\ comp.error.index = comp.i
    /\ \A f \in comp.temp : f.kind = "scene" /\ f.index < comp.error.index
    /\ ~comp.started
    /\ comp.lookup = "none"
    /\ comp.out = {}
    /\ ~comp.uploaded

\* The second of three scenes fails after the first was processed.
C21_SecondSceneFails ==
  /\ compIn.nScenes = 3
  /\ comp.error = SceneError(1)
  /\ comp.temp = {SceneFile(0)}
  /\ comp.pc = "failed"

\* C22: when a run has ended, with success or with a failure at any step,
\* none of the frame files, the encoder input list or the narration file it
\* created is left.
C22_TempFilesDeletedAtEnd ==
  comp.pc \in {"done", "failed"} => comp.temp = {}

\* The audio inputs the request asks for: the music when a musicId is given
\* and its file exists, the narration when its file was generated.
RequestedAudio ==
  (IF compIn.musicId /\ compIn.musicExists THEN {"music"} ELSE {})
    \cup (IF comp.narrationAudioPath THEN {"narration"} ELSE {})

\* C23: the audio inputs the encoder is started with are the requested
\* ones, mixed when both are present; the Music lookup has taken effect
\* before the encoder starts.
C23_AudioMatchesRequest ==
  comp.started =>
    /\ comp.startedAudio = RequestedAudio
    /\ comp.startedMixed = (RequestedAudio = {"music", "narration"})
    /\ comp.lookup # "pending"

\* C24: every Job in status failed carries a non-empty error string,
\* whichever write set the status: the failure write of an attempt, the
\* terminal failure write, an error thrown with an empty message, the
\* user's clear.
C24_FailedJobHasError ==
  \A i \in DOMAIN jobs :
    jobs[i].status = "failed" => jobs[i].error \notin {"", NoError}

\* C25: a handler failure caused by a missing product is terminal: when the
\* consume callback settles such a delivery it puts no copy of the message on
\* the queue, so the handler is not executed for it again.
C25_MissingProductTerminal ==
  [][\A d \in inflight :
       (d.pc = "decide" /\ d.err = "Product not found" /\ d \notin inflight')
         => queue'[d.q] = queue[d.q]]_vars

\* The Video records that carry an output file.
VideosWithOutput == {v \in DOMAIN videos : videos[v].output}

\* C26: executing the composition handler again for the same job (after a
\* crash or as a retry) leaves what one execution leaves: there is at most
\* one Video record and at most one output file per request.
C26_ReexecutionIdempotent ==
  /\ Len(videos) <= nReq
  /\ Cardinality(VideosWithOutput) <= nReq

\* C27: a status query answers the numbers of waiting, active, completed and
\* failed Jobs of the Job store together with total, their sum, whether or
\* not the broker is available.
C27_StatsFromJobStore ==
  [][stats' # stats =>
       /\ stats'.success
       /\ stats'.counts \in {JobCounts("any"), JobCounts("ai_content"),
                             JobCounts("generate_video")}
       /\ stats'.hasTotal
       /\ stats'.total = Total(stats'.counts)]_vars

\* The attempts of the first n Jobs, and the handler executions started for
\* the message ids up to n.
RECURSIVE SumAttempts(_)
SumAttempts(n) == IF n = 0 THEN 0 ELSE jobs[n].attempts + SumAttempts(n - 1)
RECURSIVE SumExecs(_)
SumExecs(n) == IF n = 0 THEN 0 ELSE execs[n] + SumExecs(n - 1)

\* The deliveries whose handler has not yet passed its first step.
AtFirstStep == {d \in inflight : d.pc = "start"}

\* C28: every handler execution begins with the Job update that sets status
\* active and startedAt and adds one to attempts, those that fail at their
\* first step included; so the attempts of the Jobs add up to the handler
\* executions that have passed their first step.
C28_AttemptsCountExecutions ==
  SumAttempts(Len(jobs)) = SumExecs(MaxEnqueues) - Cardinality(AtFirstStep)

\* C29: the Job writes are conditional on the status of the record: no
\* write changes a completed Job, the failure write included, and a
\* progress or completion write changes an active Job only.
C29_WritesScopedByStatus ==
  [][\A i \in DOMAIN jobs :
       /\ jobs[i].status = "completed" => jobs'[i] = jobs[i]
       /\ (\/ jobs'[i].progress # jobs[i].progress
           \/ jobs'[i].status = "completed" /\ jobs[i].status # "completed")
            => jobs[i].status = "active"]_vars

\* C30: an encoder report of p percent is shown as 50 + 0.4 p percent, which
\* is 50 for p = 0 and 90 for p = 100 and lies in the band 50..90.
C30_EncoderBand ==
  \A k \in DOMAIN comp.reported :
    /\ comp.reported[k].progress = Percent(50) + 4 * comp.reported[k].percent
    /\ comp.reported[k].progress \in Percent(50)..Percent(90)

\* C31: getChannel() returns a channel exactly in the states where the
\* connection manager is available, and in those states every durable queue
\* has been declared on the channel it returns.
C31_ChannelIffAvailable ==
  /\ getChannel <=> rabbitmqAvailable
  /\ rabbitmqAvailable => channel.asserted = DurableQueues

\* C31 witness: the manager is available again after a disconnect, on a new
\* open channel.
C31_AvailableAfterReconnect ==
  /\ nOutage > 0
  /\ rabbitmqAvailable
  /\ getChannel
  /\ channel.state = "open"
  /\ initPc = "idle" /\ ~reconnectTimer

\* C32: every path through a consume callback settles the delivery, and
\* with ack or nack(requeue = false): no delivery is left unsettled by a
\* callback that has ended, and no nack gives the message back to the queue.
C32_CallbackSettles ==
  /\ \A d \in inflight : d.pc # "thrown"
  /\ lastSettle.op = "nack" => ~lastSettle.requeue

\* ------------------------------------------------ consumers scheduled fairly
\* One step of a consumer: a delivery, an await of a handler settling, or the
\* end of the callback.
ConsumerNext ==
  \/ \E q \in QUEUE_NAMES : DeliverJob(q)
  \/ \E d \in inflight : AIActivate(d)
  \/ \E d \in inflight : AIMarkProcessing(d)
  \/ \E d \in inflight : AIProgress20(d)
  \/ \E d \in inflight : AIProgress80(d)
  \/ \E d \in inflight : AISaveProduct(d)
  \/ \E d \in inflight : AIComplete(d)
  \/ \E d \in inflight : AICatchProduct(d)
  \/ \E d \in inflight : AICatchJob(d)
  \/ \E d \in inflight : VActivate(d)
  \/ \E d \in inflight : VCreateVideo(d)
  \/ \E d \in inflight : VProcessScenes(d)
  \/ \E d \in inflight : VEncode(d)
  \/ \E d \in inflight : VThumbnail(d)
  \/ \E w \in progressWrites : VProgressApply(w)
  \/ \E d \in inflight : VSaveVideo(d)
  \/ \E d \in inflight : VComplete(d)
  \/ \E d \in inflight : VCatchJob(d)
  \/ \E d \in inflight : VCatchVideo(d)
  \/ \E d \in inflight : Ack(d)
  \/ \E d \in inflight : Republish(d)
  \/ \E d \in inflight : AITerminalWrite(d)
  \/ \E d \in inflight : VTerminalWrite(d)
  \/ \E d \in inflight : TerminalNack(d)

\* Every handler execution terminates and the consumers are scheduled: while
\* a consumer can take a step, one is taken.
ConsumerFairness == WF_vars(ConsumerNext)

\* Runs with one enqueue request, both consumers and a crash of the worker
\* process.
DrainNext ==
  \/ \E p \in Products : GenerateContentCheck(p, MaxRequests)
  \/ \E r \in reqs : GenerateContentCreate(r)
  \/ \E r \in reqs : GenerateContentPublish(r)
  \/ \E p \in Products : RegenerateCreate(p, MaxRequests)
  \/ \E r \in reqs : RegeneratePublish(r)
  \/ \E p \in Products : VideoGeneratePublish(p, MaxRequests)
  \/ \E r \in reqs : VideoGenerateCreate(r)
  \/ ConsumerNext
  \/ WorkerCrash
  \/ \E d \in inflight : WorkerCrashAfterSend(d)

LiveSpec == Init /\ [][DrainNext]_vars /\ ConsumerFairness

BrokerDrained ==
  /\ \A q \in QUEUE_NAMES : queue[q] = <<>>
  /\ inflight = {}

\* C33: with terminating handlers and fairly scheduled consumers the broker
\* ends up, for good, without any message, ready or unsettled; and while the
\* worker process has not crashed, the message of one enqueue is delivered at
\* most maxRetries + 1 times (maxAttempts + 1 with the Job default of 3).
C33_MessagesLeaveBroker ==
  /\ [](nCrash = 0 => \A r \in JobIds : execs[r] <= maxRetries + 1)
  /\ <>[]BrokerDrained

\* The message of an enqueue was delivered maxRetries + 1 times, the worker
\* never crashed, and the broker holds nothing.
C33_DrainedAfterLastRetry ==
  /\ nCrash = 0
  /\ \E r \in JobIds : execs[r] = maxRetries + 1
  /\ BrokerDrained
  /\ lastSettle.op = "nack"

\* A request that has started runs to its response: every await of a route
\* settles.
RouteNext ==
  \/ \E r \in reqs : GenerateContentCreate(r)
  \/ \E r \in reqs : GenerateContentPublish(r)
  \/ \E r \in reqs : RegeneratePublish(r)
  \/ \E r \in reqs : VideoGenerateCreate(r)

RouteFairness == WF_vars(RouteNext)

JobLiveSpec == Init /\ [][DrainNext]_vars /\ ConsumerFairness /\ RouteFairness

TerminalStatuses == {"completed", "failed"}

\* C34: every Job document that was created is completed or failed at some
\* later time, when the routes and the consumers are scheduled fairly.
C34_JobsReachTerminal ==
  \A i \in 1..MaxRequests :
    [](i \in DOMAIN jobs
         => <>(i \in DOMAIN jobs /\ jobs[i].status \in TerminalStatuses))

\* The Job documents an enqueue request wrote for the message m of queue q:
\* the video route stores the jobId it published, the AI routes store the _id
\* of the product whose productId they publish.
JobsOfEnqueue(q, data) ==
  IF q = QVIDEO
    THEN {i \in DOMAIN jobs : jobs[i].type = "generate_video"
                                /\ jobs[i].jobId = data.jobId}
    ELSE {i \in DOMAIN jobs : jobs[i].type = "ai_content"
                                /\ products[jobs[i].productId].productId = data.productId}

\* C35: while a consumer handles a message, the Job document of the enqueue
\* that published it exists.
C35_RecordBeforeConsume ==
  \A d \in inflight : Parses(d.msg) => JobsOfEnqueue(d.q, d.data) # {}

\* C36: a step of a handler or of a consumer's catch that changes a Job
\* document changes a document of the enqueue whose message it is handling.
C36_OwnRecordOnly ==
  [][\A i \in DOMAIN jobs :
       (inflight' # inflight /\ jobs'[i] # jobs[i])
         => \E d \in inflight \ inflight' : i \in JobsOfEnqueue(d.q, d.data)]_vars

\* C37: when an enqueue request that had written a Job document answers with
\* a failure, that document is not left waiting.
C37_RejectedLeavesNoWaiting ==
  [][\A r \in reqs \ reqs' :
       (r.dbJobId # 0 /\ lastRes'.id = r.id /\ ~lastRes'.success)
         => jobs'[r.dbJobId].status # "waiting"]_vars

\* ------------------------------------- the worker process and its consumer
\* The worker process imports config/rabbitmq.ts as well: in WorkerSpec the
\* connection manager's variables are those of the worker process, and
\* channel.consumers are the queues consumed on the current channel.

\* The last await of initializeRabbitMQ in the worker process.  When this is
\* initPromise, startWorker continues: ensureRabbitMQ() is true,
\* initializeQueues(), createAIContentWorker() with channel.prefetch and
\* channel.consume(QUEUE_NAMES.AI_CONTENT, callback) on the channel of that
\* moment.  startWorker starts no other consumer, and a reconnect has no
\* continuation: its new channel is only stored.
WorkerInitAssertQueues ==
  /\ initPc = "assertQueues"
  /\ IF brokerUp
       THEN /\ channel' = [channel EXCEPT
                             !.asserted = DurableQueues,
                             !.consumers = IF everAvailable THEN @ ELSE {QAI}]
            /\ rabbitmqAvailable' = TRUE
            /\ everAvailable' = TRUE
            /\ queuesInitialized' = (queuesInitialized \/ ~everAvailable)
            /\ initPc' = "idle"
            /\ UNCHANGED <<connection, reconnectTimer, brokerUp, nOutage>>
       ELSE InitCatch
  /\ UNCHANGED ConnFrame

\* The worker's connection or channel closes while no delivery is unsettled.
WorkerConnectionClose(up) == inflight = {} /\ ConnectionClose(up)
WorkerChannelClose == inflight = {} /\ ChannelClose

\* The broker delivers to the consumer of an open channel.
WorkerDeliver ==
  /\ channel.state = "open"
  /\ QAI \in channel.consumers
  /\ DeliverJob(QAI)

\* POST /ai/generate-content in the server process, whose connection is up:
\* the duplicate check, Job.create and addAIContentJob.
ServerEnqueue(p) ==
  /\ nReq < MaxEnqueues
  /\ products[p].exists
  /\ PendingJobs(p, "ai_content") = {}
  /\ nReq' = nReq + 1
  /\ lastReq' = [p |-> p, type |-> "ai_content", existingJobId |-> 0]
  /\ jobs' = Append(jobs, NewJob(p, "ai_content", 0))
  /\ queue' = [queue EXCEPT ![QAI] =
                 Append(@, NewMessage([productId |-> products[p].productId,
                                       videoId |-> NoVideo, jobId |-> nReq + 1], 5))]
  /\ lastRes' = Response(nReq + 1, "generate", p, TRUE, "queue", NoError, Len(jobs) + 1)
  /\ UNCHANGED <<products, videos, inflight, reqs, connVars, sceneVars, mediaVars,
                 nExt, nCrash, nClear, execs, lastSettle>>

WorkerConsumerNext ==
  \/ WorkerDeliver
  \/ \E d \in inflight : AIActivate(d)
  \/ \E d \in inflight : AIMarkProcessing(d)
  \/ \E d \in inflight : AIProgress20(d)
  \/ \E d \in inflight : AIProgress80(d)
  \/ \E d \in inflight : AISaveProduct(d)
  \/ \E d \in inflight : AIComplete(d)
  \/ \E d \in inflight : AICatchProduct(d)
  \/ \E d \in inflight : AICatchJob(d)
  \/ \E d \in inflight : Ack(d)
  \/ \E d \in inflight : Republish(d)
  \/ \E d \in inflight : AITerminalWrite(d)
  \/ \E d \in inflight : TerminalNack(d)

WorkerNext ==
  \/ InitConnect
  \/ InitCreateChannel
  \/ WorkerInitAssertQueues
  \/ \E up \in BOOLEAN : WorkerConnectionClose(up)
  \/ WorkerChannelClose
  \/ ReconnectTimerFires
  \/ BrokerDown
  \/ BrokerUp
  \/ \E p \in Products : ServerEnqueue(p)
  \/ WorkerConsumerNext

WorkerSpec == ConnInit /\ [][WorkerNext]_vars

\* The timer fires, the awaits of initializeRabbitMQ and of the handlers
\* settle, a broker that went away comes back, and a consumer with a message
\* to take gets it.
WorkerFairness ==
  /\ WF_vars(InitConnect)
  /\ WF_vars(InitCreateChannel)
  /\ WF_vars(WorkerInitAssertQueues)
  /\ WF_vars(ReconnectTimerFires)
  /\ WF_vars(BrokerUp)
  /\ WF_vars(WorkerConsumerNext)

WorkerLiveSpec == WorkerSpec /\ WorkerFairness

\* C38: once the worker's connection manager is available again after an
\* outage, a message waiting in the AI queue is taken by the consumer, unless
\* the manager becomes unavailable or its channel closes again first.
C38_DeliveredAfterReconnect ==
  []((nOutage > 0 /\ rabbitmqAvailable /\ channel.state = "open" /\ queue[QAI] # <<>>)
       => <>(queue[QAI] = <<>> \/ ~rabbitmqAvailable \/ channel.state # "open"))

\* C39: once the message of the video enqueue has left the broker and the Job
\* document of the enqueue is failed, no Video document is left in status
\* processing (with one enqueue per run, every Video document was created by
\* an attempt of that job).
C39_NoProcessingVideoAfterFailure ==
  (/\ BrokerDrained
   /\ \E i \in DOMAIN jobs : jobs[i].type = "generate_video" /\ jobs[i].status = "failed")
    => \A v \in DOMAIN videos : videos[v].status # "processing"

\* C40: no Job document has more attempts than its maxAttempts.
C40_AttemptsWithinMax ==
  \A i \in DOMAIN jobs : jobs[i].attempts <= jobs[i].maxAttempts

====
